---- MODULE Spec2Model ----
(***************************************************************************)
(* Model of the quiz state and scoring engine of the Telegram quiz bot:    *)
(* QuizManager (src/quiz_manager.py) and the handlers of TelegramQuizBot   *)
(* (src/bot_handlers.py) that drive it.                                    *)
(*                                                                         *)
(* Python dicts are functions whose DOMAIN is the key set; lists are       *)
(* sequences (Python index i is TLA+ index i + 1).  User and chat ids are  *)
(* integers; str(id) is injective, so a key str(id) is written id.         *)
(* A date string strftime('%Y-%m-%d') of day d is the one-tuple <<d>>, and *)
(* Python's None is the empty tuple, so a date never equals None.          *)
(* datetime.now() is read once per handler: `now` counts minutes.          *)
(***************************************************************************)
EXTENDS Integers, Sequences, FiniteSets, TLC

VARIABLES
    questions,            \* QuizManager.questions
    scores,               \* QuizManager.scores
    active_chats,         \* QuizManager.active_chats
    stats,                \* QuizManager.stats
    available_questions,  \* QuizManager.available_questions
    last_save,            \* QuizManager._last_save
    disk,                 \* the four files under data/
    bot_data,             \* context.bot_data: the open polls
    now,                  \* the wall clock, in minutes
    lastCall,             \* history: the last operation, its inputs and result
    pass,                 \* history: per chat, the questions served in its pass
    answerLog,            \* history: the answer events resolved by handle_answer
    leaderboard_cache,    \* QuizManager._cached_leaderboard and _leaderboard_cache_time
    boardLedger,          \* history: the ledger the cached leaderboard was computed from
    sweep,                \* send_automated_quiz: its position in the loop over the chats
    roomEvents            \* history: per chat, its most recent join or leave event

vars == <<questions, scores, active_chats, stats, available_questions,
          last_save, disk, bot_data, now, lastCall, pass, answerLog,
          leaderboard_cache, boardLedger, sweep, roomEvents>>

cacheVars == <<leaderboard_cache, boardLedger, sweep, roomEvents>>

-----------------------------------------------------------------------------
(* Bounds of the model *)

NumUsers == 1
NumChats == 1
MaxDay == 3
MaxAttempts == 3
MaxAnswers == 4
MaxPolls == 1
MaxIndex == 2
MaxSaveWindows == 1
MaxBatchLen == 2
MaxHalfHours == 3
MaxCacheWindows == 2
NumBoardUsers == 2
MaxBoardAttempts == 4
MaxMinutes == 6
MaxEditedScore == 2
MaxPairAnswers == 2

Users == 1..NumUsers
Chats == 1..NumChats

-----------------------------------------------------------------------------
(* Program constants *)

MinutesPerDay == 1440
SaveIntervalMinutes == 5
PollTTLMinutes == 60
CacheDurationMinutes == 5
LeaderboardSize == 10
HalfHour == PollTTLMinutes \div 2

-----------------------------------------------------------------------------
(* Python values *)

None == <<>>
EmptyDict == <<>>
NoCategory == ""

(* a maximum that returns its first argument: max(current, longest) then
   overwrites the longest streak with the current one *)
MaxTakesFirst(a, b) == a

Max(a, b) == IF a >= b THEN a ELSE b

Put(d, k, v) == [x \in (DOMAIN d) \cup {k} |-> IF x = k THEN v ELSE d[x]]

Get(d, k, default) == IF k \in DOMAIN d THEN d[k] ELSE default

DayOf(t) == t \div MinutesPerDay

DateStr(day) == <<day>>

-----------------------------------------------------------------------------
(* The in-memory engine as one value, so that calls compose *)

Mem == [questions |-> questions, scores |-> scores, active_chats |-> active_chats,
        stats |-> stats, last_save |-> last_save, disk |-> disk,
        raised |-> FALSE, writes |-> 0]

SetMem(m) ==
    /\ questions' = m.questions
    /\ scores' = m.scores
    /\ active_chats' = m.active_chats
    /\ stats' = m.stats
    /\ last_save' = m.last_save
    /\ disk' = m.disk

(* The four files: the content of each, and the files that are missing or do
   not parse as JSON (their content then stands for nothing) *)
FileNames == {"questions", "scores", "active_chats", "stats"}

EmptyFiles == [questions |-> <<>>, scores |-> EmptyDict,
               active_chats |-> <<>>, stats |-> EmptyDict, unreadable |-> {},
               failing |-> FALSE]

(* json.load of a file, with the default taken on JSONDecodeError and
   FileNotFoundError *)
ReadFile(files, name, default) ==
    IF name \in files.unreadable THEN default ELSE files[name]

(* The four files written from memory *)
WrittenFiles(m) ==
    [questions |-> m.questions, scores |-> m.scores,
     active_chats |-> m.active_chats, stats |-> m.stats,
     unreadable |-> {}, failing |-> FALSE]

(* save_data that writes on every call *)
SaveDataUnthrottled(m, t, force) ==
    [m EXCEPT !.disk = WrittenFiles(m), !.last_save = t, !.writes = @ + 1]

(* save_data that throttles a forced save as well *)
SaveDataForceIgnored(m, t, force) ==
    IF t - m.last_save < SaveIntervalMinutes THEN m
    ELSE [m EXCEPT !.disk = WrittenFiles(m), !.last_save = t, !.writes = @ + 1]

(* save_data that logs a failed write and returns *)
SaveDataSwallowing(m, t, force) ==
    IF ~force /\ t - m.last_save < SaveIntervalMinutes THEN m
    ELSE IF m.disk.failing THEN [m EXCEPT !.writes = @ + 1]
    ELSE [m EXCEPT !.disk = WrittenFiles(m), !.last_save = t, !.writes = @ + 1]

(* m.raised: an exception is on its way to the caller, and nothing more of
   the call is executed.  m.writes counts the writes the call has attempted.
   While the storage is failing the first open() raises and no file changes. *)
save_data(m, t, force) ==
    IF m.raised THEN m
    ELSE IF ~force /\ t - m.last_save < SaveIntervalMinutes THEN m
    ELSE IF m.disk.failing THEN [m EXCEPT !.raised = TRUE, !.writes = @ + 1]
    ELSE [m EXCEPT !.disk = WrittenFiles(m), !.last_save = t, !.writes = @ + 1]

_init_user_stats(t) ==
    [total_quizzes |-> 0, correct_answers |-> 0, current_streak |-> 0,
     longest_streak |-> 0, last_correct_date |-> None,
     category_scores |-> EmptyDict,
     daily_activity |-> (DateStr(DayOf(t)) :> [attempts |-> 0, correct |-> 0]),
     last_quiz_date |-> DateStr(DayOf(t)),
     groups |-> EmptyDict]

EnsureUser(st, t, u) == IF u \in DOMAIN st THEN st ELSE Put(st, u, _init_user_stats(t))

(* a daily entry that counts every attempt as a correct one *)
BumpDailyAlwaysCorrect(daily, date, is_correct) ==
    LET d0 == Get(daily, date, [attempts |-> 0, correct |-> 0])
    IN Put(daily, date, [attempts |-> d0.attempts + 1, correct |-> d0.correct + 1])

BumpDaily(daily, date, is_correct) ==
    LET d0 == Get(daily, date, [attempts |-> 0, correct |-> 0])
    IN Put(daily, date, [attempts |-> d0.attempts + 1,
                         correct |-> d0.correct + (IF is_correct THEN 1 ELSE 0)])

-----------------------------------------------------------------------------
(* Statistics ledger *)

UpdateStreak(last_correct_date, current_streak, yesterday) ==
    IF last_correct_date = yesterday THEN current_streak + 1 ELSE 1

UpdateScoreNoIncrement(sc, u) == Put(sc, u, Get(sc, u, 0))

(* a score taken from one counter that all users share *)
UpdateScoreSharedCounter(sc, u) ==
    LET all == {sc[w] : w \in DOMAIN sc} \cup {0}
        top == CHOOSE x \in all : \A y \in all : y <= x
    IN Put(sc, u, top + 1)

UpdateScore(sc, u) == Put(sc, u, Get(sc, u, 0) + 1)

UpdateCategory(cs, category) ==
    IF category # NoCategory THEN Put(cs, category, Get(cs, category, 0) + 1) ELSE cs

record_attempt(m, t, u, is_correct, category) ==
    LET today == DateStr(DayOf(t))
        yesterday == DateStr(DayOf(t - MinutesPerDay))
        st0 == EnsureUser(m.stats, t, u)
        s1 == [st0[u] EXCEPT !.total_quizzes = @ + 1,
                             !.last_quiz_date = today,
                             !.daily_activity = BumpDaily(@, today, is_correct)]
        streak == UpdateStreak(s1.last_correct_date, s1.current_streak, yesterday)
        s2 == IF is_correct
              THEN [s1 EXCEPT !.correct_answers = @ + 1,
                              !.current_streak = streak,
                              !.longest_streak = Max(streak, @),
                              !.last_correct_date = today,
                              !.category_scores = UpdateCategory(@, category)]
              ELSE [s1 EXCEPT !.current_streak = 0]
        sc == IF is_correct THEN UpdateScore(m.scores, u) ELSE m.scores
    IN save_data([m EXCEPT !.stats = Put(st0, u, s2), !.scores = sc], t, TRUE)

InitGroupStats ==
    [total_quizzes |-> 0, correct_answers |-> 0, score |-> 0,
     last_activity_date |-> None, daily_activity |-> EmptyDict,
     current_streak |-> 0, longest_streak |-> 0, last_correct_date |-> None]

UpdateGroupStats(g0, t, is_correct) ==
    LET today == DateStr(DayOf(t))
        yesterday == DateStr(DayOf(t - MinutesPerDay))
        g1 == [g0 EXCEPT !.total_quizzes = @ + 1,
                         !.last_activity_date = today,
                         !.daily_activity = BumpDaily(@, today, is_correct)]
        streak == UpdateStreak(g1.last_correct_date, g1.current_streak, yesterday)
    IN IF is_correct
       THEN [g1 EXCEPT !.correct_answers = @ + 1,
                       !.score = @ + 1,
                       !.current_streak = streak,
                       !.longest_streak = Max(streak, @),
                       !.last_correct_date = today]
       ELSE [g1 EXCEPT !.current_streak = 0]

record_group_attempt(m, t, u, chat, is_correct) ==
    LET st0 == EnsureUser(m.stats, t, u)
        g0 == Get(st0[u].groups, chat, InitGroupStats)
        g1 == UpdateGroupStats(g0, t, is_correct)
        st1 == [st0 EXCEPT ![u].groups = Put(@, chat, g1)]
        m1 == record_attempt([m EXCEPT !.stats = st1], t, u, is_correct, NoCategory)
    IN save_data(m1, t, FALSE)

(* a synchronisation that takes the score and leaves total_quizzes alone *)
SyncStatsKeepingTotal(s, score) == [s EXCEPT !.correct_answers = score]

SyncStatsWithScore(s, score) ==
    [s EXCEPT !.correct_answers = score,
              !.total_quizzes = Max(@ + 1, score)]

increment_score(m, t, u) ==
    LET st0 == EnsureUser(m.stats, t, u)
        sc1 == UpdateScore(m.scores, u)
        st1 == [st0 EXCEPT ![u] = SyncStatsWithScore(@, sc1[u])]
        m1 == record_attempt([m EXCEPT !.stats = st1, !.scores = sc1], t, u, TRUE, NoCategory)
    IN save_data(m1, t, FALSE)

get_score(sc, u) == Get(sc, u, 0)

-----------------------------------------------------------------------------
(* Global leaderboard *)

(* _cached_leaderboard and _leaderboard_cache_time as one value; both are None
   until the first get_leaderboard and after load_data *)
NoCache == [cached |-> FALSE, board |-> <<>>, time |-> 0]

(* the accuracy as a fraction, the factor 100 left out *)
AccuracyAsFraction(correct_answers, total_attempts) ==
    IF total_attempts > 0 THEN correct_answers \div total_attempts ELSE 0

(* round(correct_answers / total_attempts * 100, 1), in tenths of a percent;
   a tie between two tenths goes to the even one *)
Accuracy(correct_answers, total_attempts) ==
    IF total_attempts > 0
    THEN LET q == (correct_answers * 1000) \div total_attempts
             r == (correct_answers * 1000) % total_attempts
         IN IF 2 * r > total_attempts THEN q + 1
            ELSE IF 2 * r < total_attempts THEN q
            ELSE IF q % 2 = 0 THEN q ELSE q + 1
    ELSE 0

LeaderboardEntry(st, sc, t, u) ==
    LET today_stats == Get(st[u].daily_activity, DateStr(DayOf(t)),
                           [attempts |-> 0, correct |-> 0])
    IN [user_id |-> u,
        total_attempts |-> st[u].total_quizzes,
        correct_answers |-> st[u].correct_answers,
        wrong_answers |-> st[u].total_quizzes - st[u].correct_answers,
        accuracy |-> Accuracy(st[u].correct_answers, st[u].total_quizzes),
        score |-> get_score(sc, u),
        today_attempts |-> today_stats.attempts,
        today_correct |-> today_stats.correct,
        current_streak |-> st[u].current_streak,
        longest_streak |-> st[u].longest_streak]

(* the sort key of get_leaderboard compared as score only *)
SortsBeforeByScoreOnly(a, b) == a.score > b.score

(* the sort key (-score, -accuracy, -current_streak) of a is less than that of b *)
SortsBefore(a, b) ==
    \/ a.score > b.score
    \/ a.score = b.score /\ a.accuracy > b.accuracy
    \/ a.score = b.score /\ a.accuracy = b.accuracy /\ a.current_streak > b.current_streak

(* list.sort: the orders of the entries by the key; entries with equal keys keep
   the order of the stats dict, which the model leaves open *)
RECURSIVE Sorted(_)
Sorted(entries) ==
    IF entries = {} THEN {<<>>}
    ELSE UNION {{<<e>> \o rest : rest \in Sorted(entries \ {e})} :
                e \in {x \in entries : \A y \in entries : ~SortsBefore(y, x)}}

(* leaderboard[:n] *)
Take(s, n) == SubSeq(s, 1, IF Len(s) < n THEN Len(s) ELSE n)

TopEntries(leaderboard) == Take(leaderboard, LeaderboardSize)

(* the lists a refresh of the cache can compute from the ledger at time t *)
FreshLeaderboards(st, sc, t) ==
    {TopEntries(leaderboard) :
        leaderboard \in Sorted({LeaderboardEntry(st, sc, t, u) : u \in DOMAIN st})}

(* the cache is refreshed only when it is empty *)
CacheIsStaleWhenEmpty(cache, t) == ~cache.cached

CacheIsStale(cache, t) ==
    ~cache.cached \/ t - cache.time > CacheDurationMinutes

(* get_leaderboard: the values the cache can take; the call returns its board *)
get_leaderboard(st, sc, cache, t) ==
    IF CacheIsStale(cache, t)
    THEN {[cached |-> TRUE, board |-> board, time |-> t] :
             board \in FreshLeaderboards(st, sc, t)}
    ELSE {cache}

-----------------------------------------------------------------------------
(* Statistics of one user *)

RECURSIVE SumAttempts(_, _)
SumAttempts(daily, dates) ==
    IF dates = {} THEN 0
    ELSE LET d == CHOOSE x \in dates : TRUE
         IN daily[d].attempts + SumAttempts(daily, dates \ {d})

(* the attempts of the days from day `start` on: date >= week_start *)
AttemptsSince(daily, start) ==
    SumAttempts(daily, {d \in DOMAIN daily : d[1] >= start})

(* Day 0 is a Monday and the first of a month; the days of the model lie in
   that month *)
WeekStart(day) == day - (day % 7)

MonthStart(day) == day - day

(* the sync of get_user_stats without the adjustment of total_quizzes *)
RepairStatsKeepingTotal(s, score) == [s EXCEPT !.correct_answers = score]

RepairStats(s, score) ==
    [s EXCEPT !.correct_answers = score, !.total_quizzes = Max(@, score)]

InitialUserStats ==
    [total_quizzes |-> 0, correct_answers |-> 0, success_rate |-> 0,
     today_quizzes |-> 0, week_quizzes |-> 0, month_quizzes |-> 0,
     current_score |-> 0, current_streak |-> 0, longest_streak |-> 0]

(* get_user_stats: the engine after the call and the dict returned; the
   success rate is in tenths of a percent *)
get_user_stats(m, t, u) ==
    IF u \notin DOMAIN m.stats
    THEN <<save_data([m EXCEPT !.stats = Put(@, u, _init_user_stats(t))], t, TRUE),
           InitialUserStats>>
    ELSE LET current_date == DateStr(DayOf(t))
             m1 == IF current_date \notin DOMAIN m.stats[u].daily_activity
                   THEN save_data([m EXCEPT !.stats[u].daily_activity =
                                      Put(@, current_date, [attempts |-> 0, correct |-> 0])],
                                  t, FALSE)
                   ELSE m
             s1 == m1.stats[u]
             success_rate == Accuracy(s1.correct_answers, s1.total_quizzes)
             score == Get(m1.scores, u, 0)
             m2 == IF score # s1.correct_answers
                   THEN save_data([m1 EXCEPT !.stats[u] = RepairStats(@, score)], t, TRUE)
                   ELSE m1
             s2 == m2.stats[u]
         IN <<m2, [total_quizzes |-> s2.total_quizzes,
                   correct_answers |-> s2.correct_answers,
                   success_rate |-> success_rate,
                   current_score |-> s2.correct_answers,
                   today_quizzes |-> s2.daily_activity[current_date].attempts,
                   week_quizzes |-> AttemptsSince(s2.daily_activity, WeekStart(DayOf(t))),
                   month_quizzes |-> AttemptsSince(s2.daily_activity, MonthStart(DayOf(t))),
                   current_streak |-> s2.current_streak,
                   longest_streak |-> s2.longest_streak]>>

-----------------------------------------------------------------------------
(* Strings: a question text is a sequence of one-character strings *)

RECURSIVE LStrip(_)
LStrip(s) == IF s # <<>> /\ Head(s) = " " THEN LStrip(Tail(s)) ELSE s

RECURSIVE RStrip(_)
RStrip(s) == IF s # <<>> /\ s[Len(s)] = " " THEN RStrip(SubSeq(s, 1, Len(s) - 1)) ELSE s

Strip(s) == RStrip(LStrip(s))

StartsWith(s, p) == Len(s) >= Len(p) /\ SubSeq(s, 1, Len(p)) = p

LowerChar(c) ==
    CASE c = "A" -> "a" [] c = "B" -> "b" [] c = "C" -> "c"
      [] c = "I" -> "i" [] c = "Q" -> "q" [] c = "U" -> "u" [] c = "Z" -> "z"
      [] OTHER -> c

Lower(s) == [i \in 1..Len(s) |-> LowerChar(s[i])]

AddquizToken == <<"/", "a", "d", "d", "q", "u", "i", "z">>

StripAddquiz(s) ==
    IF StartsWith(s, AddquizToken)
    THEN Strip(SubSeq(s, Len(AddquizToken) + 1, Len(s)))
    ELSE s

StripOption(o) == IF o = " " THEN "" ELSE o

ParseInt(str) ==
    CASE str = "0" -> <<0>> [] str = "1" -> <<1>> [] str = "2" -> <<2>>
      [] str = "3" -> <<3>> [] str = "4" -> <<4>> [] str = "5" -> <<5>>
      [] OTHER -> None

-----------------------------------------------------------------------------
(* Question store *)

QuestionKeys == {"question", "options", "correct_answer"}

NormalizeCorrectAnswer(ca) == IF ca > 0 THEN ca - 1 ELSE ca

IsDuplicateCaseSensitive(qs, question) ==
    \E i \in 1..Len(qs) : qs[i].question = question

IsDuplicate(qs, question) ==
    \E i \in 1..Len(qs) : Lower(qs[i].question) = Lower(question)

NewAddStats ==
    [added |-> 0,
     rejected |-> [duplicates |-> 0, invalid_format |-> 0, invalid_options |-> 0],
     errors |-> <<>>,
     added_questions |-> <<>>]

Reject(acc, kind, error) ==
    [acc EXCEPT !.rejected[kind] = @ + 1,
                !.errors = IF error = None THEN @ ELSE Append(@, error)]

(* A rejected candidate discards what the batch had added so far *)
AddOneAbortOnReject(qs, acc, c) ==
    IF /\ QuestionKeys \subseteq DOMAIN c
       /\ c.correct_answer.kind = "int"
       /\ c.correct_answer.val \in 1..4
       /\ Len(c.options) = 4
       /\ \A i \in 1..Len(c.options) : StripOption(c.options[i]) # ""
       /\ Len(StripAddquiz(Strip(c.question))) >= 5
       /\ ~IsDuplicate(qs, StripAddquiz(Strip(c.question)))
    THEN [acc EXCEPT !.added = @ + 1,
                     !.added_questions =
                         Append(@, [question |-> StripAddquiz(Strip(c.question)),
                                    options |-> c.options,
                                    correct_answer |-> c.correct_answer.val - 1])]
    ELSE [acc EXCEPT !.added = 0, !.added_questions = <<>>,
                     !.rejected.invalid_format = @ + 1]

(* One iteration of the loop of add_questions over the candidate c.  A
   correct_answer is [kind |-> "int", val |-> n] or [kind |-> "str", val |-> s]. *)
AddOne(qs, acc, c) ==
    IF ~(QuestionKeys \subseteq DOMAIN c)
    THEN Reject(acc, "invalid_format", <<"Invalid format">>)
    ELSE
    LET question == StripAddquiz(Strip(c.question))
        options == [i \in 1..Len(c.options) |-> StripOption(c.options[i])]
        parsed == IF c.correct_answer.kind = "str"
                  THEN ParseInt(c.correct_answer.val)
                  ELSE <<c.correct_answer.val>>
    IN IF parsed = None
       THEN Reject(acc, "invalid_format", None)
       ELSE
       LET correct_answer == NormalizeCorrectAnswer(parsed[1])
       IN IF question = <<>> \/ Len(question) < 5
          THEN Reject(acc, "invalid_format", <<"Question text too short">>)
          ELSE IF IsDuplicate(qs, question)
          THEN Reject(acc, "duplicates", <<"Duplicate question">>)
          ELSE IF Len(options) # 4 \/ \E i \in 1..Len(options) : options[i] = ""
          THEN Reject(acc, "invalid_options", <<"Invalid options">>)
          ELSE IF ~(0 <= correct_answer /\ correct_answer < 4)
          THEN Reject(acc, "invalid_format", <<"Invalid correct answer index">>)
          ELSE [acc EXCEPT !.added = @ + 1,
                           !.added_questions =
                               Append(@, [question |-> question, options |-> options,
                                          correct_answer |-> correct_answer])]

(* The for loop of add_questions, candidates taken in order.  The fold is
   split in halves, the stats of the first half computed before the second
   half starts, so that a batch of MaxBatchSize candidates evaluates in
   logarithmic depth. *)
RECURSIVE AddLoop(_, _, _)
AddLoop(qs, acc, batch) ==
    IF batch = <<>> THEN acc
    ELSE IF Len(batch) = 1 THEN AddOne(qs, acc, batch[1])
    ELSE LET half == Len(batch) \div 2
             acc1 == AddLoop(qs, acc, SubSeq(batch, 1, half))
         IN IF acc1.added >= 0
            THEN AddLoop(qs, acc1, SubSeq(batch, half + 1, Len(batch)))
            ELSE acc1

MaxBatchSize == 500

(* add_questions without the cap on the size of the batch *)
AddQuestionsNoCap(m, t, batch) ==
    LET acc == AddLoop(m.questions, NewAddStats, batch)
    IN IF acc.added > 0
       THEN <<save_data([m EXCEPT !.questions = @ \o acc.added_questions], t, TRUE), acc>>
       ELSE <<m, acc>>

(* add_questions: the pair <<engine afterwards, returned stats>> *)
add_questions(m, t, batch) ==
    IF Len(batch) > MaxBatchSize
    THEN <<m, [NewAddStats EXCEPT !.errors = <<"Maximum 500 questions allowed at once">>]>>
    ELSE LET acc == AddLoop(m.questions, NewAddStats, batch)
         IN IF acc.added > 0
            THEN <<save_data([m EXCEPT !.questions = @ \o acc.added_questions], t, TRUE), acc>>
            ELSE <<m, acc>>

DeleteAt(qs, index) == SubSeq(qs, 1, index) \o SubSeq(qs, index + 2, Len(qs))

(* The lower bound of the range check dropped: list.pop of a negative index
   counts from the end of the list *)
DeleteQuestionNoLowerBound(m, t, index) ==
    IF index < Len(m.questions)
    THEN save_data([m EXCEPT !.questions =
                        DeleteAt(@, IF index < 0 THEN Len(@) + index ELSE index)],
                   t, FALSE)
    ELSE m

delete_question(m, t, index) ==
    IF 0 <= index /\ index < Len(m.questions)
    THEN save_data([m EXCEPT !.questions = DeleteAt(@, index)], t, FALSE)
    ELSE m

get_all_questions(m) ==
    IF "questions" \in m.disk.unreadable THEN m
    ELSE [m EXCEPT !.questions = m.disk.questions]

clear_all_questions(m, t) == save_data([m EXCEPT !.questions = <<>>], t, TRUE)

-----------------------------------------------------------------------------
(* Per-chat question scheduler *)

Range(s) == {s[i] : i \in 1..Len(s)}

(* random.shuffle(list(range(n))): any ordering of the indices 0..n-1 *)
ShuffledIndices(n) ==
    {p \in [1..n -> 0..(n - 1)] : \A i, j \in 1..n : i # j => p[i] # p[j]}

(* random.choices in place of random.shuffle: indices drawn with replacement *)
InitializeWithReplacement(qs) == [1..Len(qs) -> 0..(Len(qs) - 1)]

_initialize_available_questions(qs) == ShuffledIndices(Len(qs))

PopLast(pool) == [index |-> pool[Len(pool)], rest |-> SubSeq(pool, 1, Len(pool) - 1)]

(* get_random_question(chat_id) on a non-empty store with a chat id: the set of
   possible outcomes [available_questions afterwards, index returned, whether
   the popped index was outside the store (the except branch, which returns
   random.choice), whether the pool was initialized before the pop and whether
   it was reset after it]. *)
get_random_question(qs, avail, chat) ==
    LET init == chat \notin DOMAIN avail \/ avail[chat] = <<>>
        pools0 == IF init THEN _initialize_available_questions(qs) ELSE {avail[chat]}
    IN UNION {
         LET popped == PopLast(pool0)
         IN IF popped.index < Len(qs)
            THEN {[avail |-> Put(avail, chat, pool2), index |-> popped.index,
                   stale |-> FALSE, init |-> init, reinit |-> popped.rest = <<>>] :
                    pool2 \in IF popped.rest = <<>>
                              THEN _initialize_available_questions(qs)
                              ELSE {popped.rest}}
            ELSE {[avail |-> Put(avail, chat, popped.rest), index |-> i,
                   stale |-> TRUE, init |-> init, reinit |-> FALSE] :
                    i \in 0..(Len(qs) - 1)}
         : pool0 \in pools0 }

-----------------------------------------------------------------------------
(* Persistence: load_data and process start *)

(* The body of the loop of load_data over one raw question: <<>> when the
   entry is skipped, else the one-element list of the cleaned question. *)
LoadQuestion(q) ==
    LET question == Strip(q.question)
    IN IF question = <<>>
       THEN <<>>
       ELSE IF Len(q.options) = 4
       THEN <<[question |-> StripAddquiz(question),
               options |-> q.options,
               correct_answer |-> NormalizeCorrectAnswer(q.correct_answer)]>>
       ELSE <<>>

RECURSIVE LoadQuestions(_)
LoadQuestions(raw) ==
    IF raw = <<>> THEN <<>> ELSE LoadQuestion(Head(raw)) \o LoadQuestions(Tail(raw))

validate_question(q) ==
    /\ QuestionKeys \subseteq DOMAIN q
    /\ Len(q.options) = 4
    /\ 0 <= q.correct_answer /\ q.correct_answer < 4

RECURSIVE FilterValid(_)
FilterValid(qs) ==
    IF qs = <<>> THEN <<>>
    ELSE (IF validate_question(Head(qs)) THEN <<Head(qs)>> ELSE <<>>) \o FilterValid(Tail(qs))

remove_invalidquestions(m, t) ==
    save_data([m EXCEPT !.questions = FilterValid(@)], t, TRUE)

(* load_data up to remove_invalidquestions: the questions *)
LoadStore(m, t) ==
    LET m1 == [m EXCEPT !.questions = LoadQuestions(ReadFile(m.disk, "questions", <<>>))]
    IN remove_invalidquestions(m1, t)

(* load_data from there on: scores, active chats and stats, and the save *)
LoadLedger(m2, t) ==
    LET m3 == [m2 EXCEPT !.scores = ReadFile(m2.disk, "scores", EmptyDict),
                         !.active_chats = ReadFile(m2.disk, "active_chats", <<>>),
                         !.stats = ReadFile(m2.disk, "stats", EmptyDict)]
    IN IF m2.raised THEN m2 ELSE save_data(m3, t, TRUE)

load_data(m, t) == LoadLedger(LoadStore(m, t), t)

(* load_data during which the scores file is replaced by hand: the file is
   read after the save of remove_invalidquestions, so that this is the one
   moment at which a manual edit of it reaches the engine *)
load_data_edited(m, t, sc) ==
    LET m2 == LoadStore(m, t)
    IN LoadLedger([m2 EXCEPT !.disk.scores = sc,
                             !.disk.unreadable = @ \ {"scores"}], t)

(* QuizManager.__init__ in a new process that finds the files `files` *)
NewQuizManager(files, t) ==
    load_data([questions |-> <<>>, scores |-> EmptyDict, active_chats |-> <<>>,
               stats |-> EmptyDict, last_save |-> t, disk |-> files,
               raised |-> FALSE, writes |-> 0], t)

add_active_chat(m, t, chat) ==
    IF chat \notin Range(m.active_chats)
    THEN save_data([m EXCEPT !.active_chats = Append(@, chat)], t, FALSE)
    ELSE m

(* list.remove takes out the first occurrence *)
RemoveFirst(seq, x) ==
    LET k == CHOOSE j \in 1..Len(seq) :
                 seq[j] = x /\ \A h \in 1..(j - 1) : seq[h] # x
    IN [j \in 1..(Len(seq) - 1) |-> IF j < k THEN seq[j] ELSE seq[j + 1]]

remove_active_chat(m, t, chat) ==
    IF chat \in Range(m.active_chats)
    THEN save_data([m EXCEPT !.active_chats = RemoveFirst(@, chat)], t, FALSE)
    ELSE m

-----------------------------------------------------------------------------
(* Inputs *)

TextA == <<"q", "u", "i", "z", "a">>
TextB == <<"q", "u", "i", "z", "b">>
TextC == <<"q", "u", "i", "z", "c">>

FourOptions == <<"o1", "o2", "o3", "o4">>

Candidate(text, n) ==
    [question |-> text, options |-> FourOptions,
     correct_answer |-> [kind |-> "int", val |-> n]]

OptionIds == {<<0>>, <<1>>}

Categories == {NoCategory, "science"}

-----------------------------------------------------------------------------
(* Initial state: QuizManager() in a process that finds no data files
   (_initialize_files writes the four defaults), and an empty bot_data. *)

NewPass == [served |-> <<>>, dirty |-> FALSE, complete |-> FALSE, nextDirty |-> FALSE]

(* send_automated_quiz is not running *)
SweepIdle == [pc |-> "idle", i |-> 0, chat |-> 0]

Init ==
    LET m == NewQuizManager(EmptyFiles, 0)
    IN /\ questions = m.questions
       /\ scores = m.scores
       /\ active_chats = m.active_chats
       /\ stats = m.stats
       /\ last_save = m.last_save
       /\ disk = m.disk
       /\ available_questions = EmptyDict
       /\ bot_data = EmptyDict
       /\ now = 0
       /\ lastCall = [op |-> "__init__"]
       /\ pass = [c \in Chats |-> NewPass]
       /\ answerLog = <<>>
       /\ leaderboard_cache = NoCache
       /\ boardLedger = [stats |-> EmptyDict, scores |-> EmptyDict]
       /\ sweep = SweepIdle
       /\ roomEvents = [c \in Chats |-> "none"]

(* History: a chat's pass is disturbed when the store changes while the pool
   it is served from holds indices; a pool built at the end of a pass belongs
   to the next pass. *)
MarkDirty(qs) ==
    pass' = [c \in Chats |->
               IF qs = questions \/ Get(available_questions, c, <<>>) = <<>>
               THEN pass[c]
               ELSE IF pass[c].complete
               THEN [pass[c] EXCEPT !.nextDirty = TRUE]
               ELSE [pass[c] EXCEPT !.dirty = TRUE]]

(* History: the pass of a chat after get_random_question served `question`
   with outcome o *)
PassAfter(p, o, question) ==
    LET e == [index |-> o.index, question |-> question.question]
    IN [served |-> IF o.init \/ p.complete THEN <<e>> ELSE Append(p.served, e),
        dirty |-> IF o.init THEN FALSE
                  ELSE IF p.complete THEN p.nextDirty
                  ELSE p.dirty,
        complete |-> o.reinit,
        nextDirty |-> FALSE]

TotalQuizzes(st, u) == IF u \in DOMAIN st THEN st[u].total_quizzes ELSE 0

RECURSIVE SumTotalQuizzes(_, _)
SumTotalQuizzes(st, us) ==
    IF us = {} THEN 0
    ELSE LET u == CHOOSE x \in us : TRUE
         IN st[u].total_quizzes + SumTotalQuizzes(st, us \ {u})

(* The guard that caps the counters of the ledger *)
LedgerOpen == SumTotalQuizzes(stats, DOMAIN stats) < MaxAttempts

-----------------------------------------------------------------------------
(* Actions: one per operation of the engine or handler of the bot *)

(* The clock moves on by `minutes`, up to the time `limit` *)
Tick(minutes, limit) ==
    /\ now + minutes <= limit
    /\ now' = now + minutes
    /\ UNCHANGED <<cacheVars, questions, scores, active_chats, stats, available_questions,
                   last_save, disk, bot_data, lastCall, pass, answerLog>>

TickDay == Tick(MinutesPerDay, MaxDay * MinutesPerDay)

TickSaveInterval == Tick(SaveIntervalMinutes, MaxSaveWindows * SaveIntervalMinutes)

RecordAttempt(u, is_correct, category) ==
    /\ LedgerOpen
    /\ LET m == record_attempt(Mem, now, u, is_correct, category)
       IN /\ SetMem(m)
          /\ lastCall' = [op |-> "record_attempt", user |-> u, is_correct |-> is_correct,
                          raised |-> m.raised, writes |-> m.writes]
    /\ UNCHANGED <<cacheVars, available_questions, bot_data, now, pass, answerLog>>

RecordGroupAttempt(u, chat, is_correct) ==
    /\ LedgerOpen
    /\ LET m == record_group_attempt(Mem, now, u, chat, is_correct)
       IN /\ SetMem(m)
          /\ lastCall' = [op |-> "record_group_attempt", user |-> u, chat |-> chat,
                          is_correct |-> is_correct,
                          raised |-> m.raised, writes |-> m.writes]
    /\ UNCHANGED <<cacheVars, available_questions, bot_data, now, pass, answerLog>>

IncrementScore(u) ==
    /\ LedgerOpen
    /\ SetMem(increment_score(Mem, now, u))
    /\ lastCall' = [op |-> "increment_score", user |-> u]
    /\ UNCHANGED <<cacheVars, available_questions, bot_data, now, pass, answerLog>>

AddQuestions(batch) ==
    /\ LET r == add_questions(Mem, now, batch)
       IN /\ SetMem(r[1])
          /\ MarkDirty(r[1].questions)
          /\ lastCall' = [op |-> "add_questions", batch |-> batch,
                          ret |-> [added |-> r[2].added, rejected |-> r[2].rejected,
                                   errors |-> r[2].errors],
                          raised |-> r[1].raised, writes |-> r[1].writes]
    /\ UNCHANGED <<cacheVars, available_questions, bot_data, now, answerLog>>

DeleteQuestion(index) ==
    /\ LET m == delete_question(Mem, now, index)
       IN /\ SetMem(m)
          /\ MarkDirty(m.questions)
    /\ lastCall' = [op |-> "delete_question", index |-> index]
    /\ UNCHANGED <<cacheVars, available_questions, bot_data, now, answerLog>>

GetAllQuestions ==
    /\ LET m == get_all_questions(Mem)
       IN /\ SetMem(m)
          /\ MarkDirty(m.questions)
          /\ lastCall' = [op |-> "get_all_questions"]
    /\ UNCHANGED <<cacheVars, available_questions, bot_data, now, answerLog>>

ClearAllQuestions ==
    /\ LET m == clear_all_questions(Mem, now)
       IN /\ SetMem(m)
          /\ MarkDirty(m.questions)
          /\ lastCall' = [op |-> "clear_all_questions",
                          raised |-> m.raised, writes |-> m.writes]
    /\ UNCHANGED <<cacheVars, available_questions, bot_data, now, answerLog>>

(* get_random_question without the check for an empty store: the pool of the
   chat is initialized, to the empty list, before the pop fails *)
GetRandomQuestionNoEmptyCheck(chat) ==
    /\ IF questions = <<>>
       THEN /\ lastCall' = [op |-> "get_random_question", chat |-> chat, ret |-> None,
                            stale |-> FALSE]
            /\ available_questions' = Put(available_questions, chat, <<>>)
            /\ UNCHANGED pass
       ELSE \E o \in get_random_question(questions, available_questions, chat) :
            /\ available_questions' = o.avail
            /\ pass' = [pass EXCEPT ![chat] = PassAfter(@, o, questions[o.index + 1])]
            /\ lastCall' = [op |-> "get_random_question", chat |-> chat,
                            ret |-> questions[o.index + 1], stale |-> o.stale]
    /\ UNCHANGED <<cacheVars, questions, scores, active_chats, stats, last_save, disk,
                   bot_data, now, answerLog>>

GetRandomQuestion(chat) ==
    /\ IF questions = <<>>
       THEN /\ lastCall' = [op |-> "get_random_question", chat |-> chat, ret |-> None,
                            stale |-> FALSE]
            /\ UNCHANGED <<available_questions, pass>>
       ELSE \E o \in get_random_question(questions, available_questions, chat) :
            /\ available_questions' = o.avail
            /\ pass' = [pass EXCEPT ![chat] = PassAfter(@, o, questions[o.index + 1])]
            /\ lastCall' = [op |-> "get_random_question", chat |-> chat,
                            ret |-> questions[o.index + 1], stale |-> o.stale]
    /\ UNCHANGED <<cacheVars, questions, scores, active_chats, stats, last_save, disk,
                   bot_data, now, answerLog>>

(* get_random_question() without a chat: random.choice over the store *)
GetRandomQuestionUnscoped ==
    /\ IF questions = <<>>
       THEN lastCall' = [op |-> "get_random_question", chat |-> None, ret |-> None,
                         stale |-> FALSE]
       ELSE \E i \in 1..Len(questions) :
            lastCall' = [op |-> "get_random_question", chat |-> None,
                         ret |-> questions[i], stale |-> FALSE]
    /\ UNCHANGED <<cacheVars, questions, scores, active_chats, stats, available_questions,
                   last_save, disk, bot_data, now, pass, answerLog>>

FreePollIds == (1..MaxPolls) \ DOMAIN bot_data

NewPollData(chat, poll_id, question, t) ==
    [chat_id |-> chat,
     correct_option_id |-> question.correct_answer,
     user_answers |-> EmptyDict,
     poll_id |-> poll_id,
     question |-> StripAddquiz(Strip(question.question)),
     timestamp |-> t]

send_quiz(chat, caller) ==
    IF questions = <<>>
    THEN /\ lastCall' = [op |-> caller, chat |-> chat, ret |-> None]
         /\ UNCHANGED <<available_questions, pass, bot_data>>
    ELSE /\ FreePollIds # {}
         /\ \E o \in get_random_question(questions, available_questions, chat) :
            LET poll_id == CHOOSE p \in FreePollIds : \A q \in FreePollIds : p <= q
            IN /\ available_questions' = o.avail
               /\ pass' = [pass EXCEPT ![chat] = PassAfter(@, o, questions[o.index + 1])]
               /\ bot_data' = Put(bot_data, poll_id,
                                  NewPollData(chat, poll_id, questions[o.index + 1], now))
               /\ lastCall' = [op |-> caller, chat |-> chat, ret |-> poll_id]

SendQuiz(chat) ==
    /\ send_quiz(chat, "send_quiz")
    /\ UNCHANGED <<cacheVars, questions, scores, active_chats, stats, last_save, disk,
                   now, answerLog>>

(* an answer judged by the question as the store holds it now *)
IsCorrectByStore(poll_data, option_ids) ==
    \E i \in 1..Len(questions) :
        /\ StripAddquiz(Strip(questions[i].question)) = poll_data.question
        /\ questions[i].correct_answer \in Range(option_ids)

IsCorrect(poll_data, option_ids) == poll_data.correct_option_id \in Range(option_ids)

(* handle_answer on a known poll: the engine afterwards *)
handle_answer(m, t, poll_data, u, option_ids) ==
    LET is_correct == IsCorrect(poll_data, option_ids)
        m1 == IF is_correct THEN increment_score(m, t, u) ELSE m
    IN IF m1.raised THEN m1
       ELSE record_group_attempt(m1, t, u, poll_data.chat_id, is_correct)

(* the except clause of handle_answer logs the exception: the next handler
   starts with none pending *)
Caught(m) == [m EXCEPT !.raised = FALSE]

(* handle_answer has no await: two answer events to one poll are resolved one
   after the other by the event loop, first u1's, then u2's *)
ResolveBoth(m, t, poll_data, u1, o1, u2, o2) ==
    handle_answer(Caught(handle_answer(m, t, poll_data, u1, o1)), t, poll_data, u2, o2)

(* handle_answer that counts an answer to an unknown poll as an attempt *)
HandleAnswerUnknownCounted(poll_id, u, option_ids) ==
    /\ Len(answerLog) < MaxAnswers
    /\ IF poll_id \notin DOMAIN bot_data
       THEN /\ lastCall' = [op |-> "handle_answer", poll_id |-> poll_id, user |-> u,
                            resolved |-> FALSE]
            /\ SetMem(record_attempt(Mem, now, u, FALSE, NoCategory))
            /\ UNCHANGED <<bot_data, answerLog>>
       ELSE LET poll_data == bot_data[poll_id]
                is_correct == IsCorrect(poll_data, option_ids)
            IN /\ bot_data' = [bot_data EXCEPT ![poll_id].user_answers =
                                  Put(@, u, [option_ids |-> option_ids,
                                             is_correct |-> is_correct,
                                             timestamp |-> now])]
               /\ SetMem(handle_answer(Mem, now, poll_data, u, option_ids))
               /\ answerLog' = Append(answerLog,
                                      [user |-> u, chat |-> poll_data.chat_id,
                                       day |-> DayOf(now), is_correct |-> is_correct])
               /\ lastCall' = [op |-> "handle_answer", poll_id |-> poll_id, user |-> u,
                               resolved |-> TRUE, chat |-> poll_data.chat_id,
                               is_correct |-> is_correct,
                               before |-> [stats |-> stats, scores |-> scores]]
    /\ UNCHANGED <<cacheVars, available_questions, now, pass>>

HandleAnswer(poll_id, u, option_ids) ==
    /\ Len(answerLog) < MaxAnswers
    /\ IF poll_id \notin DOMAIN bot_data
       THEN /\ lastCall' = [op |-> "handle_answer", poll_id |-> poll_id, user |-> u,
                            resolved |-> FALSE]
            /\ UNCHANGED <<questions, scores, active_chats, stats, last_save, disk,
                           bot_data, answerLog>>
       ELSE LET poll_data == bot_data[poll_id]
                is_correct == IsCorrect(poll_data, option_ids)
            IN /\ bot_data' = [bot_data EXCEPT ![poll_id].user_answers =
                                  Put(@, u, [option_ids |-> option_ids,
                                             is_correct |-> is_correct,
                                             timestamp |-> now])]
               /\ SetMem(handle_answer(Mem, now, poll_data, u, option_ids))
               /\ answerLog' = Append(answerLog,
                                      [user |-> u, chat |-> poll_data.chat_id,
                                       day |-> DayOf(now), is_correct |-> is_correct])
               /\ lastCall' = [op |-> "handle_answer", poll_id |-> poll_id, user |-> u,
                               resolved |-> TRUE, chat |-> poll_data.chat_id,
                               is_correct |-> is_correct,
                               before |-> [stats |-> stats, scores |-> scores]]
    /\ UNCHANGED <<cacheVars, available_questions, now, pass>>

(* cleanup_old_polls: the polls left in bot_data at time t *)
(* a sweep that also removes the polls that are exactly one hour old *)
CleanupPollsAtOneHour(polls, t) ==
    LET keys_to_remove == {k \in DOMAIN polls : t - polls[k].timestamp >= PollTTLMinutes}
    IN [k \in DOMAIN polls \ keys_to_remove |-> polls[k]]

cleanup_old_polls(polls, t) ==
    LET keys_to_remove == {k \in DOMAIN polls : t - polls[k].timestamp > PollTTLMinutes}
    IN [k \in DOMAIN polls \ keys_to_remove |-> polls[k]]

CleanupOldPolls ==
    /\ bot_data' = cleanup_old_polls(bot_data, now)
    /\ lastCall' = [op |-> "cleanup_old_polls"]
    /\ UNCHANGED <<cacheVars, questions, scores, active_chats, stats, available_questions,
                   last_save, disk, now, pass, answerLog>>

TickHalfHour == Tick(HalfHour, MaxHalfHours * HalfHour)

AddActiveChat(chat) ==
    /\ SetMem(add_active_chat(Mem, now, chat))
    /\ roomEvents' = [roomEvents EXCEPT ![chat] = "joined"]
    /\ lastCall' = [op |-> "add_active_chat", chat |-> chat]
    /\ UNCHANGED <<leaderboard_cache, boardLedger, sweep, available_questions,
                   bot_data, now, pass, answerLog>>

(* track_chats, the bot was removed from the group: remove_active_chat *)
RemoveActiveChat(chat) ==
    /\ SetMem(remove_active_chat(Mem, now, chat))
    /\ roomEvents' = [roomEvents EXCEPT ![chat] = "left"]
    /\ lastCall' = [op |-> "remove_active_chat", chat |-> chat]
    /\ UNCHANGED <<leaderboard_cache, boardLedger, sweep, available_questions,
                   bot_data, now, pass, answerLog>>

(* send_automated_quiz runs as a job of the event loop. It takes the live list
   of get_active_chats and, for each chat, awaits check_admin_status before it
   awaits send_quiz: at each await other handlers run. *)
SendAutomatedQuizStart ==
    /\ sweep.pc = "idle"
    /\ sweep' = [pc |-> "for", i |-> 0, chat |-> 0]
    /\ lastCall' = [op |-> "get_active_chats", ret |-> active_chats]
    /\ UNCHANGED <<leaderboard_cache, boardLedger, roomEvents, questions, scores,
                   active_chats, stats, available_questions, last_save, disk,
                   bot_data, now, pass, answerLog>>

(* for chat_id in active_chats: the list iterator reads the list as it is now *)
SendAutomatedQuizNext ==
    /\ sweep.pc = "for"
    /\ sweep' = IF sweep.i < Len(active_chats)
                THEN [pc |-> "check_admin_status", i |-> sweep.i + 1,
                      chat |-> active_chats[sweep.i + 1]]
                ELSE SweepIdle
    /\ lastCall' = [op |-> "for", ret |-> sweep'.chat]
    /\ UNCHANGED <<leaderboard_cache, boardLedger, roomEvents, questions, scores,
                   active_chats, stats, available_questions, last_save, disk,
                   bot_data, now, pass, answerLog>>

(* check_admin_status has returned: send_quiz to an administered chat, a
   reminder to the others *)
SendAutomatedQuizSend(is_admin) ==
    /\ sweep.pc = "check_admin_status"
    /\ IF is_admin
       THEN send_quiz(sweep.chat, "send_automated_quiz")
       ELSE /\ lastCall' = [op |-> "send_admin_reminder", chat |-> sweep.chat]
            /\ UNCHANGED <<available_questions, pass, bot_data>>
    /\ sweep' = [sweep EXCEPT !.pc = "for"]
    /\ UNCHANGED <<leaderboard_cache, boardLedger, roomEvents, questions, scores,
                   active_chats, stats, last_save, disk, now, answerLog>>

SaveData(force) ==
    /\ SetMem(save_data(Mem, now, force))
    /\ lastCall' = [op |-> "save_data", force |-> force]
    /\ UNCHANGED <<cacheVars, available_questions, bot_data, now, pass, answerLog>>

GetLeaderboard ==
    /\ \E cache \in get_leaderboard(stats, scores, leaderboard_cache, now) :
          /\ leaderboard_cache' = cache
          /\ boardLedger' = IF CacheIsStale(leaderboard_cache, now)
                            THEN [stats |-> stats, scores |-> scores]
                            ELSE boardLedger
          /\ lastCall' = [op |-> "get_leaderboard", ret |-> cache.board,
                          refreshed |-> CacheIsStale(leaderboard_cache, now)]
    /\ UNCHANGED <<questions, scores, active_chats, stats, available_questions,
                   last_save, disk, bot_data, now, pass, answerLog, sweep, roomEvents>>

(* The clock moves on by a minute *)
TickMinute == Tick(1, MaxMinutes)

(* The clock moves on by the cache window *)
TickCache == Tick(CacheDurationMinutes, MaxCacheWindows * CacheDurationMinutes)

(* The files `bad` are lost or damaged behind the engine's back *)
CorruptFiles(bad) ==
    /\ bad # {}
    /\ disk' = [disk EXCEPT !.unreadable = @ \cup bad]
    /\ lastCall' = [op |-> "corrupt", files |-> bad]
    /\ UNCHANGED <<cacheVars, questions, scores, active_chats, stats,
                   available_questions, last_save, bot_data, now, pass, answerLog>>

(* The storage becomes unavailable, or available again *)
StorageFails ==
    /\ ~disk.failing
    /\ disk' = [disk EXCEPT !.failing = TRUE]
    /\ lastCall' = [op |-> "storage", failing |-> TRUE]
    /\ UNCHANGED <<cacheVars, questions, scores, active_chats, stats,
                   available_questions, last_save, bot_data, now, pass, answerLog>>

StorageRecovers ==
    /\ disk.failing
    /\ disk' = [disk EXCEPT !.failing = FALSE]
    /\ lastCall' = [op |-> "storage", failing |-> FALSE]
    /\ UNCHANGED <<cacheVars, questions, scores, active_chats, stats,
                   available_questions, last_save, bot_data, now, pass, answerLog>>

(* The order in which save_data writes the files *)
WriteOrder == <<"questions", "scores", "active_chats", "stats">>

(* The files when the writing of save_data ends after `done` files: the first
   `done` files hold the new content; the next one is untouched, or, opened for
   writing and not completed (`cut`), holds a truncated text. *)
InterruptedWrite(old, new, done, cut) ==
    LET written == {WriteOrder[i] : i \in 1..done}
        opened == IF cut /\ done < Len(WriteOrder) THEN {WriteOrder[done + 1]} ELSE {}
        file(name) == IF name \in written THEN new[name] ELSE old[name]
    IN [questions |-> file("questions"), scores |-> file("scores"),
        active_chats |-> file("active_chats"), stats |-> file("stats"),
        unreadable |-> (old.unreadable \ written) \cup opened,
        failing |-> old.failing]

(* The process dies while save_data(force=True) writes the files *)
CrashDuringSave(done, cut) ==
    /\ disk' = InterruptedWrite(disk, WrittenFiles(Mem), done, cut)
    /\ lastCall' = [op |-> "crash", done |-> done, cut |-> cut]
    /\ UNCHANGED <<cacheVars, questions, scores, active_chats, stats,
                   available_questions, last_save, bot_data, now, pass, answerLog>>

ResetHistory == pass' = [c \in Chats |-> NewPass]

(* load_data on the running engine (the /allreload command) *)
LoadData ==
    /\ SetMem(load_data(Mem, now))
    /\ available_questions' = EmptyDict
    /\ ResetHistory
    /\ lastCall' = [op |-> "load_data",
                    before |-> [questions |-> questions, scores |-> scores,
                                active_chats |-> active_chats, stats |-> stats],
                    saved |-> disk]
    /\ leaderboard_cache' = NoCache
    /\ UNCHANGED <<bot_data, now, answerLog, boardLedger, sweep, roomEvents>>

GetUserStats(u) ==
    /\ LET r == get_user_stats(Mem, now, u)
       IN /\ SetMem(r[1])
          /\ lastCall' = [op |-> "get_user_stats", user |-> u, ret |-> r[2],
                          repaired |-> u \in DOMAIN stats /\
                                       get_score(scores, u) # Get(stats, u, _init_user_stats(now)).correct_answers]
    /\ UNCHANGED <<cacheVars, available_questions, bot_data, now, pass, answerLog>>

(* The score files an edit by hand can leave: a score for one user *)
EditedScores == [{NumUsers} -> 0..MaxEditedScore]

LoadDataEdited(sc) ==
    /\ SetMem(load_data_edited(Mem, now, sc))
    /\ available_questions' = EmptyDict
    /\ ResetHistory
    /\ leaderboard_cache' = NoCache
    /\ lastCall' = [op |-> "load_data_edited", scores |-> sc]
    /\ UNCHANGED <<bot_data, now, answerLog, boardLedger, sweep, roomEvents>>

(* The process ends and a new one starts: QuizManager() over the files left *)
Restart ==
    /\ SetMem(NewQuizManager(disk, now))
    /\ available_questions' = EmptyDict
    /\ bot_data' = EmptyDict
    /\ ResetHistory
    /\ lastCall' = [op |-> "restart",
                    before |-> [questions |-> questions, scores |-> scores,
                                active_chats |-> active_chats, stats |-> stats],
                    saved |-> disk]
    /\ leaderboard_cache' = NoCache
    /\ sweep' = SweepIdle
    /\ UNCHANGED <<now, answerLog, boardLedger, roomEvents>>

-----------------------------------------------------------------------------
(* Specifications *)

(* The answer flow: questions are added, quizzes sent, answers resolved *)
AnswerBatches == {<<Candidate(TextA, 1)>>, <<Candidate(TextB, 2)>>}

Next ==
    \/ \E batch \in AnswerBatches : AddQuestions(batch)
    \/ \E chat \in Chats : SendQuiz(chat)
    \/ \E poll_id \in 1..MaxPolls, u \in Users, option_ids \in OptionIds :
          HandleAnswer(poll_id, u, option_ids)
    \/ TickDay

Spec == Init /\ [][Next]_vars

(* The ledger driven directly through its three recording entry points *)
NextLedger ==
    \/ \E u \in Users, is_correct \in BOOLEAN, category \in Categories :
          RecordAttempt(u, is_correct, category)
    \/ \E u \in Users, chat \in Chats, is_correct \in BOOLEAN :
          RecordGroupAttempt(u, chat, is_correct)
    \/ \E u \in Users : IncrementScore(u)
    \/ TickDay

SpecLedger == Init /\ [][NextLedger]_vars

(* The question store and the scheduler under the admin operations *)
StoreBatches == {<<Candidate(TextA, 1), Candidate(TextB, 2)>>}

NextStore ==
    \/ \E batch \in StoreBatches : AddQuestions(batch)
    \/ \E index \in (-1)..MaxIndex : DeleteQuestion(index)
    \/ GetAllQuestions
    \/ ClearAllQuestions
    \/ \E chat \in Chats : GetRandomQuestion(chat)
    \/ TickSaveInterval

SpecStore == Init /\ [][NextStore]_vars

(* The scheduler of each chat while the admin operations change the store *)
NextScheduler ==
    \/ \E batch \in StoreBatches : AddQuestions(batch)
    \/ \E index \in (-1)..MaxIndex : DeleteQuestion(index)
    \/ ClearAllQuestions
    \/ \E chat \in Chats : GetRandomQuestion(chat)

SpecScheduler == Init /\ [][NextScheduler]_vars

(* The passes of each chat over a store that only grows *)
PassBatches ==
    {<<Candidate(TextA, 1), Candidate(TextB, 2)>>, <<Candidate(TextC, 4)>>}

NextPass ==
    \/ \E batch \in PassBatches : AddQuestions(batch)
    \/ \E chat \in Chats : GetRandomQuestion(chat)

SpecPass == Init /\ [][NextPass]_vars

(* Persistence: saving, reloading and restarting the process *)
PersistBatches == {<<Candidate(TextA, 2)>>, <<Candidate(TextB, 4)>>}

NextPersist ==
    \/ \E batch \in PersistBatches : AddQuestions(batch)
    \/ \E chat \in Chats : AddActiveChat(chat)
    \/ \E u \in Users, chat \in Chats, is_correct \in BOOLEAN :
          RecordGroupAttempt(u, chat, is_correct)
    \/ \E force \in BOOLEAN : SaveData(force)
    \/ LoadData
    \/ Restart
    \/ TickSaveInterval

SpecPersist == Init /\ [][NextPersist]_vars

(* Deletion next to a pool in progress and a ledger that is not empty *)
NextDelete ==
    \/ \E batch \in StoreBatches : AddQuestions(batch)
    \/ \E index \in (-1)..MaxIndex : DeleteQuestion(index)
    \/ GetRandomQuestion(NumChats)
    \/ IncrementScore(NumUsers)

SpecDelete == Init /\ [][NextDelete]_vars

(* Bulk insert: candidates as an admin or the web route may pass them *)
TextUpperA == <<"Q", "U", "I", "Z", "A">>
TextPaddedB == <<" ", "q", "u", "i", "z", "b", " ">>
TextPrefixedC == AddquizToken \o <<" ">> \o TextC
TextShort == <<"q", "u", "i", "z">>

BlankOption == <<"o1", " ", "o3", "o4">>

StrCandidate(text, str) ==
    [question |-> text, options |-> FourOptions,
     correct_answer |-> [kind |-> "str", val |-> str]]

MissingKey == [question |-> TextC, options |-> FourOptions]

CoreCandidates == {Candidate(TextA, 1), Candidate(TextUpperA, 2), Candidate(TextShort, 1)}

OtherCandidates ==
    {StrCandidate(TextPaddedB, "3"), Candidate(TextPrefixedC, 4),
     [Candidate(TextC, 1) EXCEPT !.options = BlankOption],
     StrCandidate(TextC, "x"), Candidate(TextC, 5), MissingKey}

MixedBatch ==
    <<MissingKey, StrCandidate(TextPaddedB, "3"), StrCandidate(TextC, "x"),
      Candidate(TextPrefixedC, 4), [Candidate(TextC, 1) EXCEPT !.options = BlankOption]>>

AddBatches ==
    UNION {[1..n -> CoreCandidates] : n \in 1..MaxBatchLen}
        \cup {<<c>> : c \in OtherCandidates} \cup {MixedBatch}

NextAdd ==
    \/ \E batch \in AddBatches : AddQuestions(batch)
    \/ ClearAllQuestions

SpecAdd == Init /\ [][NextAdd]_vars

(* The size cap of a batch: a batch of exactly the cap, one valid candidate
   after invalid ones, and a batch of one more *)
FullBatch ==
    [i \in 1..MaxBatchSize |->
        IF i < MaxBatchSize THEN Candidate(TextShort, 1) ELSE Candidate(TextB, 2)]

OversizeBatch == [i \in 1..(MaxBatchSize + 1) |-> Candidate(TextB, 2)]

CapBatches == StoreBatches \cup {FullBatch, OversizeBatch}

NextCap ==
    \/ \E batch \in CapBatches : AddQuestions(batch)
    \/ \E index \in 0..MaxIndex : DeleteQuestion(index)
    \/ ClearAllQuestions
    \/ TickSaveInterval

SpecCap == Init /\ [][NextCap]_vars

(* The /addquiz command.  A line of the message is given by its six parts:
   the question, four options and the correct number as typed. *)
AdminLine(text, number) == [question |-> text, options |-> FourOptions, number |-> number]

(* One line of addquiz: the question dict appended to questions_data, or
   None when the line is skipped *)
ParseLine(line) ==
    LET n == ParseInt(line.number)
    IN IF n = None THEN None
       ELSE IF ~(0 <= n[1] - 1 /\ n[1] - 1 < 4) THEN None
       ELSE [question |-> Strip(line.question),
             options |-> [i \in 1..Len(line.options) |-> StripOption(line.options[i])],
             correct_answer |-> [kind |-> "int", val |-> n[1] - 1]]

RECURSIVE ParseLines(_)
ParseLines(lines) ==
    IF lines = <<>> THEN <<>>
    ELSE LET q == ParseLine(Head(lines))
         IN (IF q = None THEN <<>> ELSE <<q>>) \o ParseLines(Tail(lines))

(* addquiz: the engine afterwards *)
addquiz(m, t, lines) ==
    LET questions_data == ParseLines(lines)
    IN IF questions_data = <<>> THEN m
       ELSE get_all_questions(add_questions(m, t, questions_data)[1])

Addquiz(lines) ==
    /\ LET m == addquiz(Mem, now, lines)
       IN /\ SetMem(m)
          /\ MarkDirty(m.questions)
    /\ lastCall' = [op |-> "addquiz", lines |-> lines]
    /\ UNCHANGED <<cacheVars, available_questions, bot_data, now, answerLog>>

AdminLines ==
    {AdminLine(TextA, "1"), AdminLine(TextB, "2"), AdminLine(TextC, "4"),
     AdminLine(TextA, "5"), AdminLine(TextB, "x")}

AdminMessages == UNION {[1..n -> AdminLines] : n \in 1..MaxBatchLen}

NextAdmin ==
    \/ \E lines \in AdminMessages : Addquiz(lines)
    \/ \E index \in 0..MaxIndex : DeleteQuestion(index)
    \/ ClearAllQuestions
    \/ TickSaveInterval

SpecAdmin == Init /\ [][NextAdmin]_vars

(* Quizzes asked of a store that may be empty *)
NextEmpty ==
    \/ \E batch \in StoreBatches : AddQuestions(batch)
    \/ ClearAllQuestions
    \/ \E chat \in Chats : GetRandomQuestion(chat)
    \/ GetRandomQuestionUnscoped
    \/ \E chat \in Chats : SendQuiz(chat)

SpecEmpty == Init /\ [][NextEmpty]_vars

(* Polls that age: answers to polls known, unknown and swept *)
PollBatches == {<<Candidate(TextA, 1)>>}

NextPoll ==
    \/ \E batch \in PollBatches : AddQuestions(batch)
    \/ \E chat \in Chats : SendQuiz(chat)
    \/ \E poll_id \in 1..(MaxPolls + 1), u \in Users, option_ids \in OptionIds :
          LedgerOpen /\ HandleAnswer(poll_id, u, option_ids)
    \/ CleanupOldPolls
    \/ TickHalfHour

SpecPoll == Init /\ [][NextPoll]_vars

(* Answers to polls known and unknown, the clock standing still *)
NextUnknown ==
    \/ \E batch \in AnswerBatches : AddQuestions(batch)
    \/ \E chat \in Chats : SendQuiz(chat)
    \/ \E poll_id \in 1..(MaxPolls + 1), u \in Users, option_ids \in OptionIds :
          LedgerOpen /\ HandleAnswer(poll_id, u, option_ids)

SpecUnknown == Init /\ [][NextUnknown]_vars

(* The leaderboard over a ledger of several users: a few users answer freely,
   and a crowd of one user more than the leaderboard holds answers in turn,
   user u giving u correct answers, so that no two of the crowd tie. *)
BoardUsers == 1..NumBoardUsers

CrowdUsers == 1..(LeaderboardSize + 1)

BoardOpen == SumTotalQuizzes(stats, DOMAIN stats) < MaxBoardAttempts

IsStaircase(st) ==
    \A v \in DOMAIN st :
        /\ st[v].total_quizzes = st[v].correct_answers
        /\ st[v].total_quizzes <= v
        /\ \A w \in 1..(v - 1) : w \in DOMAIN st /\ st[w].total_quizzes = w

NextOnStaircase(st, u) ==
    /\ IsStaircase(st)
    /\ TotalQuizzes(st, u) < u
    /\ \A w \in 1..(u - 1) : TotalQuizzes(st, w) = w

BoardAttempt(u, is_correct) ==
    /\ BoardOpen
    /\ SetMem(record_attempt(Mem, now, u, is_correct, NoCategory))
    /\ lastCall' = [op |-> "record_attempt", user |-> u, is_correct |-> is_correct]
    /\ UNCHANGED <<cacheVars, available_questions, bot_data, now, pass, answerLog>>

CrowdAttempt(u) ==
    /\ NextOnStaircase(stats, u)
    /\ SetMem(record_attempt(Mem, now, u, TRUE, NoCategory))
    /\ lastCall' = [op |-> "record_attempt", user |-> u, is_correct |-> TRUE]
    /\ UNCHANGED <<cacheVars, available_questions, bot_data, now, pass, answerLog>>

NextBoard ==
    \/ \E u \in BoardUsers, is_correct \in BOOLEAN : BoardAttempt(u, is_correct)
    \/ \E u \in CrowdUsers : CrowdAttempt(u)
    \/ GetLeaderboard
    \/ TickCache

SpecBoard == Init /\ [][NextBoard]_vars

(* The E2E scenario, one answer to one poll, and the leaderboard command *)
NextRank ==
    \/ \E batch \in AnswerBatches : AddQuestions(batch)
    \/ \E chat \in Chats : SendQuiz(chat)
    \/ \E poll_id \in 1..MaxPolls, u \in Users, option_ids \in OptionIds :
          answerLog = <<>> /\ HandleAnswer(poll_id, u, option_ids)
    \/ GetLeaderboard
    \/ TickCache

SpecRank == Init /\ [][NextRank]_vars

(* Loading from files of which some are missing or unparsable *)
NextCorrupt ==
    \/ \E batch \in PersistBatches : AddQuestions(batch)
    \/ \E chat \in Chats : AddActiveChat(chat)
    \/ \E u \in Users, chat \in Chats, is_correct \in BOOLEAN :
          RecordGroupAttempt(u, chat, is_correct)
    \/ \E bad \in SUBSET FileNames : CorruptFiles(bad)
    \/ LoadData
    \/ Restart

SpecCorrupt == Init /\ [][NextCorrupt]_vars

(* Saves, forced and unforced, at every minute around the save interval *)
NextThrottle ==
    \/ \E chat \in Chats : AddActiveChat(chat)
    \/ \E u \in Users, chat \in Chats, is_correct \in BOOLEAN :
          RecordGroupAttempt(u, chat, is_correct)
    \/ \E force \in BOOLEAN : SaveData(force)
    \/ TickMinute

SpecThrottle == Init /\ [][NextThrottle]_vars

(* The mutating operations, of one user in one chat, while the storage fails
   and recovers *)
NextFail ==
    \/ \E is_correct \in BOOLEAN : RecordAttempt(NumUsers, is_correct, NoCategory)
    \/ \E is_correct \in BOOLEAN : RecordGroupAttempt(NumUsers, NumChats, is_correct)
    \/ \E batch \in PollBatches : AddQuestions(batch)
    \/ ClearAllQuestions
    \/ StorageFails
    \/ StorageRecovers
    \/ TickSaveInterval

SpecFail == Init /\ [][NextFail]_vars

(* Crashes in the middle of a save: the process runs until it dies in a save,
   and a new process starts from the files left behind. *)
Alive == lastCall.op # "crash"

NextCrash ==
    \/ \E batch \in StoreBatches : Alive /\ AddQuestions(batch)
    \/ \E index \in 0..MaxIndex : Alive /\ DeleteQuestion(index)
    \/ \E chat \in Chats : Alive /\ AddActiveChat(chat)
    \/ \E done \in 0..Len(WriteOrder), cut \in BOOLEAN : Alive /\ CrashDuringSave(done, cut)
    \/ ~Alive /\ Restart

SpecCrash == Init /\ [][NextCrash]_vars

(* The statistics command, for one user, over ledgers whose scores were edited
   by hand *)
NextRepair ==
    \/ \E is_correct \in BOOLEAN : RecordAttempt(NumUsers, is_correct, NoCategory)
    \/ \E sc \in EditedScores : LoadDataEdited(sc)
    \/ GetUserStats(NumUsers)
    \/ TickDay

SpecRepair == Init /\ [][NextRepair]_vars

(* The active chats: joins, leaves and the automated quiz job *)
NextRooms ==
    \/ \E batch \in PollBatches : AddQuestions(batch)
    \/ \E chat \in Chats : AddActiveChat(chat)
    \/ \E chat \in Chats : RemoveActiveChat(chat)
    \/ SendAutomatedQuizStart
    \/ SendAutomatedQuizNext
    \/ \E is_admin \in BOOLEAN : SendAutomatedQuizSend(is_admin)
    \/ CleanupOldPolls
    \/ TickHalfHour

SpecRooms == Init /\ [][NextRooms]_vars

(* Answer events of two users to one poll: the event loop resolves them in
   either order *)
PairUsers == {NumUsers, NumUsers + 1}

NextPair ==
    \/ \E batch \in PollBatches : AddQuestions(batch)
    \/ SendQuiz(NumChats)
    \/ \E poll_id \in 1..MaxPolls, u \in PairUsers, option_ids \in OptionIds :
          Len(answerLog) < MaxPairAnswers /\ HandleAnswer(poll_id, u, option_ids)
    \/ StorageFails
    \/ StorageRecovers

SpecPair == Init /\ [][NextPair]_vars

(* The hourly sweep of the polls, with one answer event *)
NextSweep ==
    \/ \E batch \in PollBatches : AddQuestions(batch)
    \/ SendQuiz(NumChats)
    \/ \E poll_id \in 1..MaxPolls, option_ids \in OptionIds :
          answerLog = <<>> /\ HandleAnswer(poll_id, NumUsers, option_ids)
    \/ CleanupOldPolls
    \/ TickHalfHour

SpecSweep == Init /\ [][NextSweep]_vars

(* The store changes between the dispatch of a poll and the answer to it *)
NextCapture ==
    \/ \E batch \in AnswerBatches : AddQuestions(batch)
    \/ \E index \in 0..MaxIndex : DeleteQuestion(index)
    \/ ClearAllQuestions
    \/ SendQuiz(NumChats)
    \/ \E poll_id \in 1..MaxPolls, option_ids \in OptionIds :
          answerLog = <<>> /\ HandleAnswer(poll_id, NumUsers, option_ids)

SpecCapture == Init /\ [][NextCapture]_vars

(* The counters of one user under every operation that writes them *)
NextCounters ==
    \/ \E is_correct \in BOOLEAN : RecordAttempt(NumUsers, is_correct, NoCategory)
    \/ \E is_correct \in BOOLEAN : RecordGroupAttempt(NumUsers, NumChats, is_correct)
    \/ IncrementScore(NumUsers)
    \/ \E sc \in EditedScores : LoadDataEdited(sc)
    \/ GetUserStats(NumUsers)

SpecCounters == Init /\ [][NextCounters]_vars

(* The streaks of one user in one chat over the days *)
NextStreak ==
    \/ \E is_correct \in BOOLEAN : RecordAttempt(NumUsers, is_correct, NoCategory)
    \/ \E is_correct \in BOOLEAN : RecordGroupAttempt(NumUsers, NumChats, is_correct)
    \/ IncrementScore(NumUsers)
    \/ TickDay

SpecStreak == Init /\ [][NextStreak]_vars

-----------------------------------------------------------------------------
(* Properties *)

CorrectAnswers(st, u) == IF u \in DOMAIN st THEN st[u].correct_answers ELSE 0

GroupStats(st, u, chat) ==
    IF u \in DOMAIN st THEN Get(st[u].groups, chat, InitGroupStats) ELSE InitGroupStats

CurrentStreak(st, u) == IF u \in DOMAIN st THEN st[u].current_streak ELSE 0

Distinct(s) == \A i, j \in 1..Len(s) : i # j => s[i] # s[j]

InRange(index, qs) == 0 <= index /\ index < Len(qs)

(* C1: E2E step 3.  From an empty ledger, once user u has answered one open
   poll of chat r with its correct option, u's global correct count is 1, u's
   score is 1 and u's correct count in r is 1. *)
C1_E2EStep3 ==
    \A u \in Users, r \in Chats :
        (/\ Len(answerLog) = 1
         /\ answerLog[1].user = u
         /\ answerLog[1].chat = r
         /\ answerLog[1].is_correct)
        => /\ CorrectAnswers(stats, u) = 1
           /\ get_score(scores, u) = 1
           /\ GroupStats(stats, u, r).correct_answers = 1

(* C2: every answer event resolved against an open poll, correct or not,
   raises the user's global total_attempts by exactly 1 and the total_attempts
   of the poll's chat by exactly 1. *)
C2_OneAttemptPerAnswer ==
    (lastCall.op = "handle_answer" /\ lastCall.resolved)
    => /\ TotalQuizzes(stats, lastCall.user)
            = TotalQuizzes(lastCall.before.stats, lastCall.user) + 1
       /\ GroupStats(stats, lastCall.user, lastCall.chat).total_quizzes
            = GroupStats(lastCall.before.stats, lastCall.user, lastCall.chat).total_quizzes + 1

(* C3: P3.  After any sequence of record_attempt, record_group_attempt and
   increment_score calls, every user's score equals the correct count of the
   user's stats. *)
C3_ScoreEqualsCorrectCount ==
    \A u \in Users : get_score(scores, u) = CorrectAnswers(stats, u)

C3_Witness ==
    \E u \in Users :
        /\ get_score(scores, u) >= 2
        /\ TotalQuizzes(stats, u) > CorrectAnswers(stats, u)
        /\ lastCall.op = "increment_score"

FilesOf(mem) == [questions |-> mem.questions, scores |-> mem.scores,
                 active_chats |-> mem.active_chats, stats |-> mem.stats,
                 unreadable |-> {}, failing |-> FALSE]

(* C4: when the engine held non-empty scores, stats and active chats and the
   files held exactly them, the engine of a new process holds the same
   scores, stats and active chats. *)
C4_DurableAcrossRestart ==
    (/\ lastCall.op = "restart"
     /\ lastCall.saved = FilesOf(lastCall.before)
     /\ lastCall.before.scores # EmptyDict
     /\ lastCall.before.stats # EmptyDict
     /\ lastCall.before.active_chats # <<>>)
    => /\ scores = lastCall.before.scores
       /\ stats = lastCall.before.stats
       /\ active_chats = lastCall.before.active_chats

(* C5: P4.  When the files hold exactly the in-memory state (a save), a load
   reproduces that state in all four collections, every correct_answer of the
   questions included. *)
C5_SaveLoadRoundTrip ==
    (lastCall.op = "load_data" /\ lastCall.saved = FilesOf(lastCall.before))
    => /\ questions = lastCall.before.questions
       /\ scores = lastCall.before.scores
       /\ active_chats = lastCall.before.active_chats
       /\ stats = lastCall.before.stats

ServedIndices(p) == [i \in 1..Len(p.served) |-> p.served[i].index]

ServedTexts(p) == [i \in 1..Len(p.served) |-> p.served[i].question]

(* C6: P1.  In a pass of a chat during which the store was not modified, the
   indices served are pairwise distinct, and the pass ends when each of the N
   questions of the store has been served once. *)
C6_NoRepeatInPass ==
    \A c \in Chats :
        ~pass[c].dirty
        => /\ Distinct(ServedIndices(pass[c]))
           /\ ~pass[c].nextDirty
              => /\ Len(pass[c].served) <= Len(questions)
                 /\ pass[c].complete <=> (/\ pass[c].served # <<>>
                                          /\ Len(pass[c].served) = Len(questions))

C6_Witness ==
    \E c \in Chats :
        /\ ~pass[c].dirty
        /\ pass[c].complete
        /\ Len(pass[c].served) = 3
        /\ lastCall.op = "get_random_question"

(* C7: also when the store changed while a chat had a pool in progress, a
   call of get_random_question never pops an index that is outside the store,
   and no question is served twice within the pass. *)
C7_NoStaleIndex ==
    /\ \A c \in Chats : Distinct(ServedTexts(pass[c]))
    /\ lastCall.op = "get_random_question" => ~lastCall.stale

(* C8: a get_all_questions that follows delete_question(i) with i in range
   returns the list as it was before the delete with element i removed. *)
C8_DeleteThenGetAll ==
    [][(lastCall'.op = "delete_question" /\ InRange(lastCall'.index, questions))
       => get_all_questions(Mem').questions = DeleteAt(questions, lastCall'.index)]_vars

(* C9: delete_question(i) with i out of range changes neither the store, nor
   the pool of any chat, nor the ledger, nor the files. *)
C9_DeleteOutOfRangeNoop ==
    [][(lastCall'.op = "delete_question" /\ ~InRange(lastCall'.index, questions))
       => UNCHANGED <<questions, available_questions, stats, scores,
                      active_chats, disk, last_save, bot_data>>]_vars

C9_Witness ==
    /\ lastCall.op = "delete_question"
    /\ ~InRange(lastCall.index, questions)
    /\ questions # <<>>
    /\ \E c \in DOMAIN available_questions : available_questions[c] # <<>>
    /\ stats # EmptyDict
    /\ scores # EmptyDict

AnswerOn(u, day, is_correct) ==
    [user |-> u, chat |-> 1, day |-> day, is_correct |-> is_correct]

(* C10: P2.  With answers resolved by handle_answer: one correct answer on
   each of the days D, D+1, D+2 gives current_streak 3; an incorrect answer
   on D+3 then gives 0; a correct answer on D and the next on D+2 gives 1. *)
C10_StreakCorrectness ==
    \A u \in Users, D \in 0..MaxDay :
        /\ answerLog = <<AnswerOn(u, D, TRUE), AnswerOn(u, D + 1, TRUE),
                         AnswerOn(u, D + 2, TRUE)>>
           => CurrentStreak(stats, u) = 3
        /\ answerLog = <<AnswerOn(u, D, TRUE), AnswerOn(u, D + 1, TRUE),
                         AnswerOn(u, D + 2, TRUE), AnswerOn(u, D + 3, FALSE)>>
           => CurrentStreak(stats, u) = 0
        /\ answerLog = <<AnswerOn(u, D, TRUE), AnswerOn(u, D + 2, TRUE)>>
           => CurrentStreak(stats, u) = 1

LedgerOps == {"record_attempt", "record_group_attempt", "increment_score"}

Today == DateStr(DayOf(now))

(* C11: a correct answer recorded for a user on a day on which the user
   already has a correct answer, the streak standing at 1 or more, leaves
   current_streak as it was (it is not reset to 1), in the global stats and
   in the stats of the chat the attempt is recorded for. *)
C11_SameDayCorrectKeepsStreak ==
    [][\A u \in Users :
        (/\ lastCall'.op \in LedgerOps
         /\ lastCall'.user = u
         /\ (lastCall'.op = "increment_score" \/ lastCall'.is_correct)
         /\ u \in DOMAIN stats
         /\ stats[u].last_correct_date = Today
         /\ stats[u].current_streak >= 1)
        => /\ CurrentStreak(stats', u) = CurrentStreak(stats, u)
           /\ \A c \in Chats :
                (/\ GroupStats(stats', u, c).total_quizzes
                        # GroupStats(stats, u, c).total_quizzes
                 /\ GroupStats(stats, u, c).last_correct_date = Today
                 /\ GroupStats(stats, u, c).current_streak >= 1)
                => GroupStats(stats', u, c).current_streak
                        = GroupStats(stats, u, c).current_streak]_vars

UpperChar(c) ==
    CASE c = "a" -> "A" [] c = "b" -> "B" [] c = "c" -> "C"
      [] c = "i" -> "I" [] c = "q" -> "Q" [] c = "u" -> "U" [] c = "z" -> "Z"
      [] OTHER -> c

SameTextIgnoringCase(a, b) ==
    Len(a) = Len(b) /\ \A i \in 1..Len(a) : UpperChar(a[i]) = UpperChar(b[i])

InStore(qs, text) == \E i \in 1..Len(qs) : SameTextIgnoringCase(qs[i].question, text)

(* The text of a candidate as the store keeps it *)
CleanText(text) == StripAddquiz(Strip(text))

AnswerNumber(c) ==
    IF c.correct_answer.kind = "str" THEN ParseInt(c.correct_answer.val)
    ELSE <<c.correct_answer.val>>

(* A candidate that is a question: the three keys, a number for the answer,
   a text of 5 characters or more *)
WellFormed(c) ==
    /\ QuestionKeys \subseteq DOMAIN c
    /\ AnswerNumber(c) # None
    /\ Len(CleanText(c.question)) >= 5

GoodOptions(c) ==
    Len(c.options) = 4 /\ \A i \in 1..Len(c.options) : StripOption(c.options[i]) # ""

ValidCandidate(c) == WellFormed(c) /\ GoodOptions(c) /\ AnswerNumber(c)[1] \in 1..4

InvalidCandidate(c) ==
    ~WellFormed(c) \/ ~GoodOptions(c) \/ AnswerNumber(c)[1] \notin 0..4

Appended == SubSeq(questions', Len(questions) + 1, Len(questions'))

(* C12: P5, existing store.  A candidate question whose text equals,
   ignoring case, the text of a question already in the store is rejected:
   it is counted in rejected.duplicates, it is not counted in added, and no
   question of that text is appended to the store. *)
C12_DuplicateOfStoreRejected ==
    [][lastCall'.op = "add_questions" =>
        LET batch == lastCall'.batch
            ret == lastCall'.ret
            dups == {i \in 1..Len(batch) :
                        /\ WellFormed(batch[i])
                        /\ InStore(questions, CleanText(batch[i].question))}
        IN /\ ret.rejected.duplicates >= Cardinality(dups)
           /\ ret.added <= Len(batch) - Cardinality(dups)
           /\ SubSeq(questions', 1, Len(questions)) = questions
           /\ \A k \in 1..Len(Appended) : ~InStore(questions, Appended[k].question)
           /\ (Len(batch) = 1 /\ dups = {1})
              => /\ ret.rejected.duplicates = 1
                 /\ ret.added = 0
                 /\ questions' = questions]_vars

C12_Witness ==
    /\ lastCall.op = "add_questions"
    /\ lastCall.batch = <<Candidate(TextUpperA, 2)>>
    /\ lastCall.ret.rejected.duplicates = 1
    /\ \E i \in 1..Len(questions) : questions[i].question = TextA

(* C13: after any sequence of add_questions calls no two questions of the
   store have the same text ignoring case, also when one batch holds the
   same text twice. *)
C13_StoreTextsUnique ==
    \A i, j \in 1..Len(questions) :
        i # j => ~SameTextIgnoringCase(questions[i].question, questions[j].question)

(* C14: add_questions judges each candidate of a batch within the cap on its
   own: every valid candidate whose text is not in the store is appended and
   counted in added, whatever else the batch holds; what is appended comes
   from candidates that are not invalid; the store before the call is kept. *)
C14_CandidatesIndependent ==
    [][(lastCall'.op = "add_questions" /\ Len(lastCall'.batch) <= MaxBatchSize) =>
        LET batch == lastCall'.batch
            ret == lastCall'.ret
            notInvalid == {i \in 1..Len(batch) : ~InvalidCandidate(batch[i])}
        IN /\ SubSeq(questions', 1, Len(questions)) = questions
           /\ ret.added = Len(Appended)
           /\ Len(Appended) <= Cardinality(notInvalid)
           /\ \A k \in 1..Len(Appended) :
                \E i \in notInvalid :
                    /\ Appended[k].question = CleanText(batch[i].question)
                    /\ Appended[k].options
                         = [o \in 1..Len(batch[i].options) |-> StripOption(batch[i].options[o])]
           /\ \A i \in 1..Len(batch) :
                (ValidCandidate(batch[i])
                    /\ ~InStore(questions, CleanText(batch[i].question)))
                => \E k \in 1..Len(Appended) :
                        Appended[k].question = CleanText(batch[i].question)]_vars

C14_Witness ==
    /\ lastCall.op = "add_questions"
    /\ lastCall.batch = MixedBatch
    /\ lastCall.ret.added = 2
    /\ lastCall.ret.rejected.invalid_format = 2
    /\ lastCall.ret.rejected.invalid_options = 1
    /\ Len(questions) > 2

(* C15: add_questions with a batch of more than 500 candidates adds nothing:
   the store is as before, added is 0, an error message is returned, and
   neither the files nor the time of the last save change. *)
C15_OversizeBatchRejected ==
    [][(lastCall'.op = "add_questions" /\ Len(lastCall'.batch) > MaxBatchSize) =>
        /\ questions' = questions
        /\ disk' = disk
        /\ last_save' = last_save
        /\ lastCall'.ret.added = 0
        /\ lastCall'.ret.errors # <<>>]_vars

C15_Witness ==
    /\ lastCall.op = "add_questions"
    /\ Len(lastCall.batch) = MaxBatchSize + 1
    /\ disk.questions # questions
    /\ ~IsDuplicate(questions, TextB)

(* C16: a question sent through /addquiz with the correct number k in 1..4,
   its text not yet in the store, is stored with correct_answer k - 1. *)
C16_AddquizOneBasedToZeroBased ==
    [][lastCall'.op = "addquiz" =>
        \A i \in 1..Len(lastCall'.lines) :
            LET line == lastCall'.lines[i]
                k == ParseInt(line.number)
            IN (/\ k # None
                /\ k[1] \in 1..4
                /\ ~InStore(questions, CleanText(line.question)))
               => \E j \in 1..Len(questions') :
                    /\ questions'[j].question = CleanText(line.question)
                    /\ questions'[j].correct_answer = k[1] - 1]_vars

(* C17: E2E steps 1-2.  After the question with correct index 1 was added
   to the empty store by add_questions, a quiz sent to a chat is this
   question, and the poll registered for it has correct_option_id 1. *)
C17_E2ESteps12 ==
    (Len(questions) = 1 /\ questions[1].question = TextA)
    => /\ lastCall.op = "send_quiz" => DOMAIN bot_data # {}
       /\ \A p \in DOMAIN bot_data :
            /\ bot_data[p].question = TextA
            /\ bot_data[p].correct_option_id = 1

(* C18: with an empty store get_random_question returns None, for a chat
   and without one, and changes nothing; send_quiz then registers no poll. *)
C18_EmptyStoreNoQuestion ==
    [][(questions = <<>> /\ lastCall'.op \in {"get_random_question", "send_quiz"})
       => /\ UNCHANGED <<questions, available_questions, bot_data, scores, stats,
                         active_chats, disk, last_save>>
          /\ lastCall'.ret = None]_vars

C18_Witness ==
    /\ lastCall.op = "send_quiz"
    /\ questions = <<>>
    /\ DOMAIN available_questions # {}

(* C19: an answer whose poll id names no poll of bot_data changes nothing:
   stats, scores, the polls and the files stay as they were. *)
C19_UnknownPollIgnored ==
    [][(lastCall'.op = "handle_answer" /\ lastCall'.poll_id \notin DOMAIN bot_data)
       => UNCHANGED <<stats, scores, bot_data, disk, last_save, questions,
                      active_chats, available_questions>>]_vars

C19_Witness ==
    /\ lastCall.op = "handle_answer"
    /\ ~lastCall.resolved
    /\ stats # EmptyDict
    /\ DOMAIN bot_data # {}

(* C20: an answer that arrives more than 1 hour after its poll was opened
   changes neither stats nor scores, also while the record of the poll is
   still in bot_data. *)
C20_AnswerAfterTTLIgnored ==
    [][(/\ lastCall'.op = "handle_answer"
        /\ lastCall'.poll_id \in DOMAIN bot_data
        /\ now - bot_data[lastCall'.poll_id].timestamp > PollTTLMinutes)
       => UNCHANGED <<stats, scores>>]_vars

(* C21: a second answer of a user to a poll the user has already answered
   changes neither the user's stats, global or of the chat, nor the score. *)
C21_OneOutcomePerUserPerPoll ==
    [][(/\ lastCall'.op = "handle_answer"
        /\ lastCall'.poll_id \in DOMAIN bot_data
        /\ lastCall'.user \in DOMAIN bot_data[lastCall'.poll_id].user_answers)
       => UNCHANGED <<stats, scores>>]_vars

(* C22: a freshly computed leaderboard lists users of the ledger, each once, by
   score descending, equal scores by accuracy descending, equal scores and
   accuracies by current streak descending, and holds at most 10 entries. *)
AccuracyOf(u) == Accuracy(CorrectAnswers(stats, u), TotalQuizzes(stats, u))

RankedAbove(u, v) ==
    \/ get_score(scores, u) > get_score(scores, v)
    \/ /\ get_score(scores, u) = get_score(scores, v)
       /\ AccuracyOf(u) > AccuracyOf(v)
    \/ /\ get_score(scores, u) = get_score(scores, v)
       /\ AccuracyOf(u) = AccuracyOf(v)
       /\ CurrentStreak(stats, u) >= CurrentStreak(stats, v)

FreshBoard == lastCall.op = "get_leaderboard" /\ lastCall.refreshed

C22_LeaderboardOrder ==
    FreshBoard =>
        LET board == lastCall.ret
        IN /\ Len(board) <= 10
           /\ \A i \in 1..Len(board) :
                 /\ board[i].user_id \in DOMAIN stats
                 /\ board[i].score = get_score(scores, board[i].user_id)
                 /\ board[i].accuracy = AccuracyOf(board[i].user_id)
                 /\ board[i].current_streak = CurrentStreak(stats, board[i].user_id)
           /\ \A i, j \in 1..Len(board) :
                 i < j => /\ board[i].user_id # board[j].user_id
                          /\ RankedAbove(board[i].user_id, board[j].user_id)

(* two users equal in score and accuracy are ranked by their streaks *)
C22_Witness ==
    /\ FreshBoard
    /\ \E i, j \in 1..Len(lastCall.ret) :
          /\ i < j
          /\ lastCall.ret[i].score = lastCall.ret[j].score
          /\ lastCall.ret[i].accuracy = lastCall.ret[j].accuracy
          /\ lastCall.ret[i].current_streak > lastCall.ret[j].current_streak

(* two users equal in score are ranked by their accuracies *)
C22_WitnessAccuracy ==
    /\ FreshBoard
    /\ \E i, j \in 1..Len(lastCall.ret) :
          /\ i < j
          /\ lastCall.ret[i].score = lastCall.ret[j].score
          /\ lastCall.ret[i].accuracy > lastCall.ret[j].accuracy

(* a ledger of 11 users gives a leaderboard of 10 *)
C22_WitnessCut ==
    /\ FreshBoard
    /\ Cardinality(DOMAIN stats) = 11
    /\ Len(lastCall.ret) = 10

(* C23: in the E2E scenario, an empty ledger and one poll answered correctly by
   user U, a leaderboard computed afterwards has U first, with accuracy 100%. *)
OneCorrectAnswer == Len(answerLog) = 1 /\ answerLog[1].is_correct

C23_E2EStep4 ==
    (FreshBoard /\ OneCorrectAnswer) =>
        /\ Len(lastCall.ret) >= 1
        /\ lastCall.ret[1].user_id = answerLog[1].user
        /\ lastCall.ret[1].accuracy = 100 * 10

C23_Witness == FreshBoard /\ OneCorrectAnswer

(* C24: the list returned by get_leaderboard at time t is a leaderboard of the
   ledger as it was at a time within the 5 minutes up to t; a call that finds
   the cached list older than 5 minutes computes the list from the ledger as it
   is at the call. *)
LeaderboardStep ==
    /\ lastCall'.op = "get_leaderboard"
    /\ UNCHANGED <<now, stats, scores>>

C24_CacheStaleness ==
    [][LeaderboardStep =>
          /\ leaderboard_cache'.cached
          /\ lastCall'.ret = leaderboard_cache'.board
          /\ now - 5 <= leaderboard_cache'.time
          /\ leaderboard_cache'.time <= now
          /\ lastCall'.ret \in FreshLeaderboards(boardLedger'.stats, boardLedger'.scores,
                                                 leaderboard_cache'.time)
          /\ (leaderboard_cache.cached /\ now - leaderboard_cache.time > 5) =>
                /\ leaderboard_cache'.time = now
                /\ boardLedger' = [stats |-> stats, scores |-> scores]]_vars

(* a list cached 5 minutes ago is returned although the ledger has changed *)
C24_Witness ==
    /\ lastCall.op = "get_leaderboard"
    /\ ~lastCall.refreshed
    /\ now - leaderboard_cache.time = 5
    /\ boardLedger.stats # stats

(* a list is computed anew after the first one has expired *)
C24_WitnessRecomputed ==
    /\ lastCall.op = "get_leaderboard"
    /\ lastCall.refreshed
    /\ leaderboard_cache.time = now
    /\ now > 5
    /\ lastCall.ret # <<>>

(* C25: a load from files of which some are missing or unparsable leaves each
   collection whose file is unreadable at its empty default and every other
   collection with exactly the content of its file. *)
LoadStep == lastCall'.op \in {"restart", "load_data"} /\ now' = now /\ lastCall' # lastCall

C25_CorruptionIsolated ==
    [][(LoadStep /\ disk.unreadable # {}) =>
          /\ questions' = ReadFile(disk, "questions", <<>>)
          /\ scores' = ReadFile(disk, "scores", EmptyDict)
          /\ active_chats' = ReadFile(disk, "active_chats", <<>>)
          /\ stats' = ReadFile(disk, "stats", EmptyDict)]_vars

(* C26: an unforced save less than 5 minutes after the last write leaves the
   files and the time of the last write as they are; a forced save, and an
   unforced one 5 minutes or more after the last write, writes the four
   collections as they are in memory and sets the time of the last write. *)
SaveStep == lastCall'.op = "save_data" /\ now' = now

C26_WriteThrottling ==
    [][SaveStep =>
          /\ UNCHANGED <<questions, scores, active_chats, stats>>
          /\ IF ~lastCall'.force /\ now - last_save < 5
             THEN UNCHANGED <<disk, last_save>>
             ELSE /\ disk' = FilesOf(Mem)
                  /\ last_save' = now]_vars

(* an unforced save inside the interval leaves a change of memory unwritten *)
C26_Witness ==
    /\ lastCall.op = "save_data"
    /\ ~lastCall.force
    /\ now - last_save < 5
    /\ disk # FilesOf(Mem)

(* an unforced save writes once the interval has elapsed *)
C26_WitnessElapsed ==
    /\ lastCall.op = "save_data"
    /\ ~lastCall.force
    /\ last_save = now
    /\ now = 5
    /\ disk.active_chats # <<>>
    /\ disk.stats = EmptyDict

(* C27: when the write of a save fails, record_attempt, record_group_attempt,
   add_questions and clear_all_questions end with the error raised to their
   caller, after one attempt to write; a call whose write succeeds, or that
   writes nothing, raises nothing. *)
SavingOps == {"record_attempt", "record_group_attempt", "add_questions",
              "clear_all_questions"}

SavingStep == lastCall'.op \in SavingOps /\ now' = now

MustWrite(call) == call.op = "add_questions" => call.ret.added > 0

C27_WriteFailureRaised ==
    [][SavingStep =>
          IF disk.failing /\ MustWrite(lastCall')
          THEN lastCall'.raised /\ lastCall'.writes = 1 /\ disk' = disk
          ELSE ~lastCall'.raised]_vars

C27_Witness ==
    /\ lastCall.op = "record_group_attempt"
    /\ lastCall.raised
    /\ disk.failing
    /\ disk.stats # stats
    /\ now - last_save >= 5

(* C28: after a crash in the middle of a save the files hold either what they
   held before the save or the four collections as they were in memory, each
   file complete and readable. *)
C28_SaveAtomic ==
    [][lastCall'.op = "crash" => (disk' = disk \/ disk' = FilesOf(Mem))]_vars

(* C29: between the operations that resolve answers the stats and scores files
   hold the stats and scores of memory: every recorded attempt is written at
   once, however short the time since the last write. *)
C29_AttemptsDurable == disk.stats = stats /\ disk.scores = scores

(* an attempt recorded in the same minute as the last write is in the files *)
C29_Witness ==
    /\ lastCall.op = "record_group_attempt"
    /\ now = 0
    /\ \E u \in DOMAIN stats : TotalQuizzes(stats, u) >= 2
    /\ disk.stats = stats

(* C30: when get_user_stats(u) finds the score of u different from the
   correct_answers of the stats of u, then on return correct_answers is the
   score, the score is as it was, total_quizzes is at least correct_answers,
   and the correct_answers returned is the score. *)
C30_ReadTimeRepair ==
    [][\A u \in Users :
          (/\ lastCall'.op = "get_user_stats"
           /\ lastCall'.user = u
           /\ now' = now
           /\ u \in DOMAIN stats
           /\ get_score(scores, u) # stats[u].correct_answers)
          => /\ stats'[u].correct_answers = get_score(scores, u)
             /\ scores' = scores
             /\ stats'[u].total_quizzes >= stats'[u].correct_answers
             /\ lastCall'.ret.correct_answers = get_score(scores, u)]_vars

(* a repair that had to raise total_quizzes to the score *)
C30_Witness ==
    /\ lastCall.op = "get_user_stats"
    /\ lastCall.repaired
    /\ lastCall.ret.correct_answers = 2
    /\ lastCall.ret.total_quizzes = 2
    /\ SumAttempts(stats[lastCall.user].daily_activity,
                   DOMAIN stats[lastCall.user].daily_activity) = 1

(* C31: after any sequence of add_active_chat and remove_active_chat events a
   chat is in active_chats iff its most recent event was a join, active_chats
   never holds a chat twice, and an automated quiz is dispatched only to a
   chat that is in active_chats when it is dispatched. *)
ActiveIffJoined ==
    \A c \in Chats : c \in Range(active_chats) <=> roomEvents[c] = "joined"

NoChatTwice ==
    \A j, k \in 1..Len(active_chats) : active_chats[j] = active_chats[k] => j = k

DispatchedToActive ==
    lastCall.op = "send_automated_quiz" /\ questions # <<>>
        => lastCall.chat \in Range(active_chats)

C31_ActiveRoomSet ==
    /\ ActiveIffJoined
    /\ NoChatTwice
    /\ DispatchedToActive

(* C32: when handle_answer resolves the answers of two different users to one
   poll at the same time, the ledger afterwards is the one that resolving them
   one after the other gives, in either order, and each resolution changes only
   the stats and the score of its own user. *)
LedgerOf(m) == [stats |-> m.stats, scores |-> m.scores]

OthersUntouched(u) ==
    /\ DOMAIN stats' \ {u} = DOMAIN stats \ {u}
    /\ DOMAIN scores' \ {u} = DOMAIN scores \ {u}
    /\ \A w \in DOMAIN stats \ {u} : stats'[w] = stats[w]
    /\ \A w \in DOMAIN scores \ {u} : scores'[w] = scores[w]

SecondOfPair ==
    /\ lastCall.op = "handle_answer"
    /\ lastCall.resolved
    /\ lastCall.user # lastCall'.user
    /\ lastCall.poll_id = lastCall'.poll_id
    /\ bot_data[lastCall.poll_id].user_answers[lastCall.user].timestamp = now

PairStep ==
    answerLog' # answerLog =>
        LET u == lastCall'.user
            p == lastCall'.poll_id
        IN /\ OthersUntouched(u)
           /\ SecondOfPair =>
                 LET v == lastCall.user
                     ou == bot_data'[p].user_answers[u].option_ids
                     ov == bot_data[p].user_answers[v].option_ids
                     m0 == [Mem EXCEPT !.stats = lastCall.before.stats,
                                       !.scores = lastCall.before.scores]
                 IN /\ LedgerOf(Mem') = LedgerOf(ResolveBoth(m0, now, bot_data[p], v, ov, u, ou))
                    /\ LedgerOf(Mem') = LedgerOf(ResolveBoth(m0, now, bot_data[p], u, ou, v, ov))

C32_ConcurrentAnswers == [][PairStep]_vars

C32_Witness ==
    /\ lastCall.op = "handle_answer"
    /\ lastCall.resolved
    /\ \A u \in PairUsers :
          /\ u \in DOMAIN bot_data[lastCall.poll_id].user_answers
          /\ bot_data[lastCall.poll_id].user_answers[u].timestamp = now
          /\ bot_data[lastCall.poll_id].user_answers[u].is_correct
          /\ get_score(scores, u) = 3

(* C33: with at least two questions in a store that is not modified between
   them, two consecutive get_random_question calls for one chat never return
   the same question, also when the second call is the first one after the
   pool ran empty and was shuffled again. *)
ConsecutiveDraws ==
    /\ lastCall.op = "get_random_question"
    /\ lastCall'.op = "get_random_question"
    /\ lastCall'.chat = lastCall.chat
    /\ available_questions' # available_questions
    /\ questions' = questions
    /\ Len(questions) >= 2
    /\ ~pass[lastCall.chat].dirty
    /\ ~pass'[lastCall.chat].dirty

NoImmediateRepeat == ConsecutiveDraws => lastCall'.ret # lastCall.ret

C33_NoImmediateRepeat == [][NoImmediateRepeat]_vars

(* C34: record_attempt(u, False) adds 1 to total_quizzes and to today's daily
   attempts, sets current_streak to 0, and leaves correct_answers, scores[u],
   longest_streak, last_correct_date, today's daily correct count and
   category_scores as they were; record_group_attempt(u, chat, False) does the
   same to the stats of u in the chat. *)
UserStatsOf(st, u) == Get(st, u, _init_user_stats(now))

DailyOf(daily, date) == Get(daily, date, [attempts |-> 0, correct |-> 0])

IncorrectRule(before, after, today) ==
    /\ after.total_quizzes = before.total_quizzes + 1
    /\ DailyOf(after.daily_activity, today).attempts =
          DailyOf(before.daily_activity, today).attempts + 1
    /\ after.current_streak = 0
    /\ after.correct_answers = before.correct_answers
    /\ after.longest_streak = before.longest_streak
    /\ after.last_correct_date = before.last_correct_date
    /\ DailyOf(after.daily_activity, today).correct =
          DailyOf(before.daily_activity, today).correct

IncorrectAttemptStep ==
    /\ lastCall'.op \in {"record_attempt", "record_group_attempt"}
    /\ ~lastCall'.is_correct
    /\ stats' # stats

IncorrectAttemptFrame ==
    IncorrectAttemptStep =>
        LET u == lastCall'.user
            before == UserStatsOf(stats, u)
            after == stats'[u]
            today == DateStr(DayOf(now))
        IN /\ IncorrectRule(before, after, today)
           /\ after.category_scores = before.category_scores
           /\ scores' = scores
           /\ IF lastCall'.op = "record_group_attempt"
              THEN /\ IncorrectRule(Get(before.groups, lastCall'.chat, InitGroupStats),
                                    after.groups[lastCall'.chat], today)
                   /\ Get(before.groups, lastCall'.chat, InitGroupStats).score =
                         after.groups[lastCall'.chat].score
                   /\ \A c \in DOMAIN after.groups \ {lastCall'.chat} :
                         c \in DOMAIN before.groups /\ after.groups[c] = before.groups[c]
              ELSE after.groups = before.groups

C34_IncorrectAttempt == [][IncorrectAttemptFrame]_vars

C34_Witness ==
    /\ lastCall.op = "record_group_attempt"
    /\ ~lastCall.is_correct
    /\ stats[lastCall.user].longest_streak >= 1
    /\ stats[lastCall.user].current_streak = 0
    /\ stats[lastCall.user].groups[lastCall.chat].longest_streak >= 1
    /\ stats[lastCall.user].groups[lastCall.chat].current_streak = 0
    /\ stats[lastCall.user].groups[lastCall.chat].total_quizzes >= 2

(* C35: cleanup_old_polls removes from bot_data exactly the polls opened more
   than 1 hour before the sweep; every poll at most 1 hour old keeps its
   record, so an answer to it is still resolved, and stats, scores, the
   question store and the pools are unchanged. *)
SweepStep == lastCall'.op = "cleanup_old_polls" /\ now' = now

PollAge(k) == now - bot_data[k].timestamp

SweepRemovesOld ==
    SweepStep =>
        /\ DOMAIN bot_data' = {k \in DOMAIN bot_data : PollAge(k) <= PollTTLMinutes}
        /\ \A k \in DOMAIN bot_data' : bot_data'[k] = bot_data[k]
        /\ UNCHANGED <<stats, scores, questions, available_questions, active_chats>>

C35_PollSweep == [][SweepRemovesOld]_vars

C35_Witness ==
    /\ lastCall.op = "cleanup_old_polls"
    /\ \E k \in DOMAIN bot_data : PollAge(k) = PollTTLMinutes

C35_WitnessRemoved ==
    /\ lastCall.op = "cleanup_old_polls"
    /\ bot_data = EmptyDict
    /\ \E c \in Chats : pass[c].served # <<>>
    /\ stats # EmptyDict

(* C36: whether an answer is recorded as correct is decided by the
   correct_option_id that send_quiz stored in the poll's record: the record
   takes it from the question served, no later change of the store alters it,
   and handle_answer records an answer as correct, and raises the score, iff
   the chosen options hold it. *)
CapturedAtDispatch ==
    lastCall'.op = "send_quiz" /\ bot_data' # bot_data =>
        LET p == lastCall'.ret
            q == questions[pass'[lastCall'.chat].served[Len(pass'[lastCall'.chat].served)].index + 1]
        IN bot_data'[p].correct_option_id = q.correct_answer

CaptureKept ==
    \A p \in DOMAIN bot_data \cap DOMAIN bot_data' :
        bot_data'[p].correct_option_id = bot_data[p].correct_option_id

JudgedByCapture ==
    answerLog' # answerLog =>
        LET p == lastCall'.poll_id
            u == lastCall'.user
            chosen == bot_data'[p].user_answers[u]
            hit == bot_data[p].correct_option_id \in Range(chosen.option_ids)
        IN /\ chosen.is_correct = hit
           /\ answerLog'[Len(answerLog')].is_correct = hit
           /\ get_score(scores', u) > get_score(scores, u) <=> hit
           /\ CorrectAnswers(stats', u) > CorrectAnswers(stats, u) <=> hit

C36_CorrectnessCaptured ==
    [][CapturedAtDispatch /\ CaptureKept /\ JudgedByCapture]_vars

C36_Witness ==
    /\ lastCall.op = "handle_answer"
    /\ lastCall.resolved
    /\ lastCall.is_correct
    /\ questions = <<>>
    /\ get_score(scores, lastCall.user) > 0

(* C37: in every state, for every user, correct_answers <= total_quizzes in
   the user's stats and in the user's stats of each chat, so the accuracy
   computed from them lies within 0..100 percent and is 0 when total_quizzes
   is 0; so does the success_rate that get_user_stats returns. *)
CountersBounded(s) ==
    /\ 0 <= s.correct_answers
    /\ s.correct_answers <= s.total_quizzes
    /\ Accuracy(s.correct_answers, s.total_quizzes) \in 0..1000
    /\ s.total_quizzes = 0 => Accuracy(s.correct_answers, s.total_quizzes) = 0

C37_CorrectWithinTotal ==
    /\ \A u \in DOMAIN stats :
          /\ CountersBounded(stats[u])
          /\ \A c \in DOMAIN stats[u].groups : CountersBounded(stats[u].groups[c])
    /\ lastCall.op = "get_user_stats" =>
          /\ lastCall.ret.correct_answers <= lastCall.ret.total_quizzes
          /\ lastCall.ret.success_rate \in 0..1000

C37_Witness ==
    /\ lastCall.op = "get_user_stats"
    /\ lastCall.repaired
    /\ lastCall.ret.correct_answers = lastCall.ret.total_quizzes
    /\ lastCall.ret.total_quizzes >= 2
    /\ \E c \in DOMAIN stats[lastCall.user].groups :
          stats[lastCall.user].groups[c].correct_answers >= 1

(* C38: in every state longest_streak >= current_streak >= 0 for every user,
   in the user's stats and in the user's stats of each chat, and no step
   lowers a longest_streak. *)
StreakOrdered(s) == s.longest_streak >= s.current_streak /\ s.current_streak >= 0

StreaksOrdered ==
    \A u \in DOMAIN stats :
        /\ StreakOrdered(stats[u])
        /\ \A c \in DOMAIN stats[u].groups : StreakOrdered(stats[u].groups[c])

LongestKept ==
    \A u \in DOMAIN stats :
        /\ u \in DOMAIN stats'
        /\ stats'[u].longest_streak >= stats[u].longest_streak
        /\ \A c \in DOMAIN stats[u].groups :
              /\ c \in DOMAIN stats'[u].groups
              /\ stats'[u].groups[c].longest_streak >= stats[u].groups[c].longest_streak

C38_StreakOrder == []StreaksOrdered /\ [][LongestKept]_vars

C38_Witness ==
    /\ lastCall.op = "record_group_attempt"
    /\ lastCall.is_correct
    /\ stats[lastCall.user].longest_streak >= 2
    /\ stats[lastCall.user].current_streak = 1
    /\ stats[lastCall.user].groups[lastCall.chat].longest_streak >= 2
    /\ stats[lastCall.user].groups[lastCall.chat].current_streak = 1

(* C39: for every user, after any sequence of answers resolved by
   handle_answer, the attempts of daily_activity summed over all dates equal
   total_quizzes and the correct counts summed over all dates equal
   correct_answers. *)
RECURSIVE SumCorrect(_, _)
SumCorrect(daily, dates) ==
    IF dates = {} THEN 0
    ELSE LET d == CHOOSE x \in dates : TRUE
         IN daily[d].correct + SumCorrect(daily, dates \ {d})

C39_DailyMatchesTotals ==
    \A u \in DOMAIN stats :
        /\ SumAttempts(stats[u].daily_activity, DOMAIN stats[u].daily_activity) =
              stats[u].total_quizzes
        /\ SumCorrect(stats[u].daily_activity, DOMAIN stats[u].daily_activity) =
              stats[u].correct_answers
====
